---- MODULE Spec2Model ----
(***************************************************************************)
(* Model of the SMS assistant service: the inbound SMS webhook             *)
(* (routes.py twilio_callback), the enrichment pipeline                    *)
(* (utility.py process_questions_answers), the outbound delivery           *)
(* (send_reply) and the Stripe billing webhook with its three handlers.    *)
(***************************************************************************)
EXTENDS Integers, Sequences, FiniteSets, TLC

(* ------------------------------------------------------------------ *)
(* Bounds of the model                                                  *)
(* ------------------------------------------------------------------ *)
MaxRequests == 1
MaxEvents == 3
MaxLines == 2
MaxEntries == 2
MaxHistory == 7
MaxNodes == 4
MaxPhoneLen == 13
MaxSubmits == 2

(* ------------------------------------------------------------------ *)
(* Program constants                                                    *)
(* ------------------------------------------------------------------ *)
\* a loop that gives up one attempt early
max_retries_four == 5 - 1

max_retries == 5
PartLimit == 1600
HistoryWindow == 6

None == "None"

StripeIds == {"sub_1", "sub_2"}
ToNumbers == {"PN1", "PN2", "PN9"}
FromNumbers == {"M1", "M2", "bad"}
Bodies == {" ", "txt"}
ReplyLens == {1600, 1601, 3500}
\* output lines of the extraction model: two questions, a question whose only
\* question mark ends the phrase "to me?", and a line without question mark
LineVals == {"Q1", "Q2", "Qme", "n"}
FetchOutcomes == {"data", "none", "raise"}
AnswerOutcomes == {"ans", "none"}

VARIABLES
    subscriptions,     \* Subscription table: sequence of rows, id = index
    mobile_numbers,    \* MobileNumber table: sequence of rows in id order
    user_preferences,  \* subscription ids that have UserPreference/AssistantPreference rows
    history,           \* History table: sequence of rows in order of creation
    twilio_numbers,    \* phone number SIDs provisioned at the telephony provider
    outbox,            \* messages accepted by the telephony provider, in send order
    sms,               \* the worker running twilio_callback
    stripe,            \* the worker running stripe_callback
    subscribe,         \* the worker running subscribe_page for the second user
    requests,          \* inbound SMS requests received so far
    events,            \* Stripe events received so far
    pf                 \* input and result of a pure function under check

vars == <<subscriptions, mobile_numbers, user_preferences, history, twilio_numbers,
          outbox, sms, stripe, subscribe, requests, events, pf>>

db == <<subscriptions, mobile_numbers, user_preferences, history>>

(* ------------------------------------------------------------------ *)
(* Helpers                                                              *)
(* ------------------------------------------------------------------ *)
\* Query.filter_by(...).first(): the lowest of the matching row ids, 0 for None
First(matching) ==
    IF matching = {} THEN 0
    ELSE CHOOSE i \in matching : \A j \in matching : i <= j

NewSubscription(user, stripe_id, number_sid) ==
    [user_id |-> user, stripe_subscription_id |-> stripe_id,
     twillio_number_sid |-> number_sid, enabled |-> TRUE, billing_error |-> FALSE,
     status |-> "Active", current_period |-> "P0",
     last_payment_amount |-> 0, last_payment_date |-> 0]

NoAnswers == [none |-> TRUE, list |-> <<>>]
NoPrompt == [has_additional |-> FALSE, additional |-> <<>>, message_type |-> None]

SmsIdle ==
    [pc |-> "idle", sig |-> TRUE, From |-> "M1", To |-> "PN1", Body |-> "txt",
     MessageSid |-> 0, phone_sid |-> None, user_id |-> 0, subscription_id |-> 0,
     answers |-> NoAnswers, prompt |-> NoPrompt, reply |-> 0, resp |-> 0,
     trace |-> <<>>, hist0 |-> 0, out0 |-> 0, cause |-> "none",
     unresolved |-> FALSE, enrich_failed |-> FALSE, gated |-> FALSE,
     after_cancel |-> FALSE, conversation |-> <<>>]

(* ------------------------------------------------------------------ *)
(* Inbound SMS webhook                                                  *)
(* ------------------------------------------------------------------ *)

\* the number belongs to an enabled subscription whose billing_error is set
BillingErrorOn(number_sid) ==
    \E i \in 1..Len(subscriptions) :
        /\ subscriptions[i].twillio_number_sid = number_sid
        /\ subscriptions[i].enabled
        /\ subscriptions[i].billing_error

\* the number belongs to no enabled subscription and a subscription was
\* cancelled
CancelledNumber(number_sid) ==
    /\ \E i \in 1..Len(subscriptions) : ~subscriptions[i].enabled
    /\ \A i \in 1..Len(subscriptions) :
          subscriptions[i].enabled => subscriptions[i].twillio_number_sid # number_sid

\* a handler boundary that answers a caught exception as an authorization failure
InternalServerError_as403(s) == [s EXCEPT !.pc = "done", !.resp = 403]

\* except Exception at the handler boundary: 'Internal Server Error', 500
InternalServerError(s) == [s EXCEPT !.pc = "done", !.resp = 500]

Unauthorized(s) == [s EXCEPT !.pc = "done", !.resp = 403]

\* The request arrives and its signature is validated.  abort(403) raises an
\* HTTPException inside the try block, which the except Exception clause turns
\* into the 500 answer.
SmsReceive(sig, from, to, body) ==
    /\ sms.pc = "idle"
    /\ requests < MaxRequests
    /\ requests' = requests + 1
    /\ LET s == [SmsIdle EXCEPT !.sig = sig, !.From = from, !.To = to, !.Body = body,
                                !.MessageSid = requests + 1,
                                !.hist0 = Len(history), !.out0 = Len(outbox),
                                !.gated = BillingErrorOn(to),
                                !.after_cancel = CancelledNumber(to)]
       IN sms' = IF ~sig THEN [InternalServerError(s) EXCEPT !.cause = "abort"]
                 ELSE [s EXCEPT !.pc = "lookup"]
    /\ UNCHANGED <<db, twilio_numbers, outbox, stripe, subscribe, events, pf>>

\* client.incoming_phone_numbers.list(phone_number=to_number)
SmsLookup(outcome) ==
    /\ sms.pc = "lookup"
    /\ sms' = IF outcome = "raise"
              THEN [InternalServerError(sms) EXCEPT !.cause = "lookup", !.unresolved = TRUE,
                                                    !.gated = @ /\ BillingErrorOn(sms.To)]
              ELSE IF sms.To \notin twilio_numbers
              THEN [Unauthorized(sms) EXCEPT !.unresolved = TRUE]
              ELSE [sms EXCEPT !.pc = "validate", !.phone_sid = sms.To,
                               !.gated = @ /\ BillingErrorOn(sms.To)]
    /\ UNCHANGED <<db, twilio_numbers, outbox, stripe, subscribe, requests, events, pf>>

\* phonenumbers.parse raises NumberParseException for a malformed number
Parsable(from_number) == from_number # "bad"

validate_incomming_message(from_number, phone_sid, db_ok) ==
    IF ~Parsable(from_number) \/ ~db_ok THEN <<0, 0>>
    ELSE LET subscription ==
                 First({i \in 1..Len(subscriptions) :
                          /\ subscriptions[i].twillio_number_sid = phone_sid
                          /\ subscriptions[i].enabled
                          /\ ~subscriptions[i].billing_error})
         IN IF subscription = 0 THEN <<0, 0>>
            ELSE LET user == subscriptions[subscription].user_id
                     mobile_entry ==
                         First({i \in 1..Len(mobile_numbers) :
                                  /\ mobile_numbers[i].user_id = user
                                  /\ mobile_numbers[i].subscription_id = subscription
                                  /\ mobile_numbers[i].mobile_number = from_number})
                 IN IF mobile_entry = 0 THEN <<0, 0>> ELSE <<user, subscription>>

SmsValidate(db_ok) ==
    /\ sms.pc = "validate"
    /\ LET ids == validate_incomming_message(sms.From, sms.phone_sid, db_ok)
       IN sms' = IF ids[1] = 0 \/ ids[2] = 0
                 THEN [Unauthorized(sms) EXCEPT !.unresolved = TRUE,
                                                !.gated = @ /\ BillingErrorOn(sms.To)]
                 ELSE [sms EXCEPT !.pc = "save_in", !.user_id = ids[1],
                                  !.subscription_id = ids[2],
                                  !.gated = @ /\ BillingErrorOn(sms.To)]
    /\ UNCHANGED <<db, twilio_numbers, outbox, stripe, subscribe, requests, events, pf>>

HistoryRow(user, sub, message_sid, direction, body) ==
    [user_id |-> user, subscription_id |-> sub, message_sid |-> message_sid,
     direction |-> direction, body |-> body]

\* a save that writes the new message over the newest row
save_sms_history_overwrite(rows, row, commit_ok) ==
    IF ~commit_ok THEN rows
    ELSE IF rows = <<>> THEN <<row>>
    ELSE [rows EXCEPT ![Len(rows)] = row]

\* db.session.add + commit; a failing commit is rolled back and swallowed
save_sms_history(rows, row, commit_ok) ==
    IF commit_ok THEN Append(rows, row) ELSE rows

SmsSaveIncoming(commit_ok) ==
    /\ sms.pc = "save_in"
    /\ history' = save_sms_history(history,
                     HistoryRow(sms.user_id, sms.subscription_id,
                                [kind |-> "single", sids |-> <<sms.MessageSid>>],
                                "incoming", [text |-> sms.Body, len |-> 0]),
                     commit_ok)
    /\ sms' = [sms EXCEPT !.pc = "enrich",
                          !.trace = Append(@, IF commit_ok THEN "save_in_ok" ELSE "save_in_fail")]
    /\ UNCHANGED <<subscriptions, mobile_numbers, user_preferences, twilio_numbers,
                   outbox, stripe, subscribe, requests, events, pf>>

(* ------------------------------------------------------------------ *)
(* Enrichment                                                           *)
(* ------------------------------------------------------------------ *)

\* str.strip() of the message body
Strip(text) == IF text = " " THEN "" ELSE text

\* '?' in line
HasQuestionMark(line) == line \in {"Q1", "Q2", "Qme"}

\* line.replace(phrase, 'near ' + location_text) for the phrases "near me",
\* "to me?", "current location" and "where I am located": the second phrase
\* takes its question mark with it
Relocate(line) == IF line = "Qme" THEN "near_location" ELSE line

\* the lines of the model output that still hold a question mark after the
\* location phrases were replaced, in output order; the empty list when the
\* model call raises
extract_questions(lines, call_ok) ==
    IF ~call_ok THEN <<>>
    ELSE SelectSeq([i \in 1..Len(lines) |-> Relocate(lines[i])], HasQuestionMark)

AnswerOf(question) == IF question = "Q1" THEN "A1" ELSE "A2"

\* answer_question: the synthesized paragraph, None when the call fails
answer_question(question, outcome) ==
    IF outcome = "ans" THEN AnswerOf(question) ELSE None

RECURSIVE QuestionLoop(_, _, _, _, _)
QuestionLoop(questions, i, answers, fetched, answered) ==
    IF i > Len(questions) THEN [none |-> FALSE, list |-> answers]
    ELSE IF fetched[i] = "raise" THEN NoAnswers
    ELSE IF fetched[i] = "none"
         THEN QuestionLoop(questions, i + 1, answers, fetched, answered)
    ELSE QuestionLoop(questions, i + 1,
                      Append(answers, answer_question(questions[i], answered[i])),
                      fetched, answered)

\* fetched[i] is what fetch_data does for the i-th question: "data" (a result
\* tree), "none" (None returned) or "raise" (an exception it does not catch);
\* answered[i] is the outcome of the synthesis call for that question.
process_questions_answers(text_message, lines, call_ok, fetched, answered) ==
    IF Strip(text_message) = "" THEN NoAnswers
    ELSE QuestionLoop(extract_questions(lines, call_ok), 1, <<>>, fetched, answered)

LineSeqs == UNION {[1..n -> LineVals] : n \in 0..MaxLines}
FetchSeqs == [1..MaxLines -> FetchOutcomes]
AnswerSeqs == [1..MaxLines -> AnswerOutcomes]

\* TRUE when a search call or a synthesis call fails for a question that the
\* loop reaches
RECURSIVE EnrichmentFails(_, _, _, _)
EnrichmentFails(n, i, fetched, answered) ==
    IF i > n THEN FALSE
    ELSE IF fetched[i] = "raise" THEN TRUE
    ELSE IF fetched[i] = "none" THEN TRUE
    ELSE answered[i] = "none" \/ EnrichmentFails(n, i + 1, fetched, answered)

\* every run of the enrichment on a message body: the answers it returns and
\* whether a search or synthesis call failed on the way
EnrichRuns ==
    { [text |-> text_message,
       answers |-> process_questions_answers(text_message, lines, call_ok,
                                             fetched, answered),
       failed |-> /\ Strip(text_message) # ""
                  /\ EnrichmentFails(Len(extract_questions(lines, call_ok)), 1,
                                     fetched, answered)] :
      text_message \in Bodies, lines \in LineSeqs, call_ok \in BOOLEAN,
      fetched \in FetchSeqs, answered \in AnswerSeqs }

\* lines 571-579: the preference rows are read, then the enrichment runs
SmsEnrich(run) ==
    /\ sms.pc = "enrich"
    /\ run.text = sms.Body
    /\ sms' = IF sms.subscription_id \notin user_preferences
              THEN [InternalServerError(sms) EXCEPT !.cause = "prefs"]
              ELSE [sms EXCEPT
                     !.pc = "prompt",
                     !.answers = run.answers,
                     !.trace = Append(@, "enrich"),
                     !.enrich_failed = run.failed]
    /\ UNCHANGED <<db, twilio_numbers, outbox, stripe, subscribe, requests, events, pf>>

(* ------------------------------------------------------------------ *)
(* Prompt builder                                                       *)
(* ------------------------------------------------------------------ *)

\* a test that takes every list, the empty one included, as present
Truthy_not_none(extra_info) == ~extra_info.none

\* Python truthiness of extra_info: None and the empty list are falsy
Truthy(extra_info) == ~extra_info.none /\ extra_info.list # <<>>

\* "\n".join(extra_info) raises TypeError when an item is not a string
JoinRaises(items) == \E i \in 1..Len(items) : items[i] = None

\* Python truthiness of system_message: None and the empty string are falsy
TruthyMessage(system_message) == system_message \notin {None, ""}

\* a builder that appends the message type section whenever one is given
build_system_prompt_both(extra_info, system_message) ==
    IF Truthy(extra_info) /\ JoinRaises(extra_info.list)
    THEN [raised |-> TRUE, prompt |-> NoPrompt]
    ELSE [raised |-> FALSE,
          prompt |-> [has_additional |-> Truthy(extra_info),
                      additional |-> IF Truthy(extra_info) THEN extra_info.list ELSE <<>>,
                      message_type |-> IF TruthyMessage(system_message)
                                       THEN system_message ELSE None]]

\* the sections build_system_prompt appends to the base prompt:
\* "Additional Information" with the joined extra_info, "Response Message
\* Type" with the system_message
build_system_prompt(extra_info, system_message) ==
    IF Truthy(extra_info) /\ JoinRaises(extra_info.list)
    THEN [raised |-> TRUE, prompt |-> NoPrompt]
    ELSE [raised |-> FALSE,
          prompt |-> [has_additional |-> Truthy(extra_info),
                      additional |-> IF Truthy(extra_info) THEN extra_info.list ELSE <<>>,
                      message_type |-> IF TruthyMessage(system_message) /\ ~Truthy(extra_info)
                                       THEN system_message ELSE None]]

SmsBuildPrompt ==
    /\ sms.pc = "prompt"
    /\ LET built == build_system_prompt(sms.answers, None)
       IN sms' = IF built.raised THEN [InternalServerError(sms) EXCEPT !.cause = "prompt"]
                 ELSE [sms EXCEPT !.pc = "chat", !.prompt = built.prompt]
    /\ UNCHANGED <<db, twilio_numbers, outbox, stripe, subscribe, requests, events, pf>>

(* ------------------------------------------------------------------ *)
(* Reply generation and outbound delivery                               *)
(* ------------------------------------------------------------------ *)

Min(a, b) == IF a < b THEN a ELSE b

Reverse(seq) == [i \in 1..Len(seq) |-> seq[Len(seq) + 1 - i]]

\* History.query.filter_by(user_id, subscription_id) ordered by created; the
\* History table is kept in order of creation
\* load_sms_history with one ordering for both values of order
load_sms_history_ascending(rows, user_id, subscription_id, order) ==
    LET mine(r) == r.user_id = user_id /\ r.subscription_id = subscription_id
    IN IF order \notin {"asc", "desc"}
       THEN [raised |-> "ValueError", queried |-> FALSE, result |-> <<>>]
       ELSE [raised |-> None, queried |-> TRUE, result |-> SelectSeq(rows, mine)]

load_sms_history(rows, user_id, subscription_id, order) ==
    LET mine(r) == r.user_id = user_id /\ r.subscription_id = subscription_id
    IN IF order \notin {"asc", "desc"}
       THEN [raised |-> "ValueError", queried |-> FALSE, result |-> <<>>]
       ELSE [raised |-> None, queried |-> TRUE,
             result |-> IF order = "asc" THEN SelectSeq(rows, mine)
                        ELSE Reverse(SelectSeq(rows, mine))]

\* a window that is not put back into chronological order
RecentHistory_unreversed(history_records) ==
    SubSeq(history_records, 1, Min(HistoryWindow, Len(history_records)))

\* list(reversed(history_records[:6]))
RecentHistory(history_records) ==
    Reverse(SubSeq(history_records, 1, Min(HistoryWindow, Len(history_records))))

\* clean_string(record.body) as the content of a message
Cleaned(body) == [cleaned |-> body]

HistoryMessage(record) ==
    [role |-> IF record.direction = "incoming" THEN "user" ELSE "assistant",
     content |-> Cleaned(record.body)]

SystemMessage(system_prompt) == [role |-> "system", content |-> [prompt |-> system_prompt]]

\* list.insert(-3, x): before the third last item, at the front of a shorter list
InsertThirdLast(messages, x) ==
    LET at == IF Len(messages) >= 3 THEN Len(messages) - 3 ELSE 0
    IN SubSeq(messages, 1, at) \o <<x>> \o SubSeq(messages, at + 1, Len(messages))

\* the messages build_and_send_messages_openai hands to the completion call;
\* history_records is None or a list, newest first
Conversation(system_prompt, history_records) ==
    LET recent == RecentHistory(history_records.list)
        messages == [i \in 1..Len(recent) |-> HistoryMessage(recent[i])]
    IN IF history_records.none \/ history_records.list = <<>> \/ messages = <<>>
       THEN <<SystemMessage(system_prompt)>>
       ELSE InsertThirdLast(messages, SystemMessage(system_prompt))

\* lines 585-587: the history is loaded newest first and
\* build_and_send_messages_openai sends the conversation; the completion
\* call returns a reply of length reply_len or raises
SmsChat(outcome, reply_len) ==
    /\ sms.pc = "chat"
    /\ LET chat_history == load_sms_history(history, sms.user_id, sms.subscription_id, "desc")
           messages == Conversation(sms.prompt, [none |-> FALSE, list |-> chat_history.result])
       IN sms' = IF outcome = "raise"
                 THEN [InternalServerError(sms) EXCEPT !.cause = "chat",
                                                       !.conversation = messages]
                 ELSE [sms EXCEPT !.pc = "send", !.reply = reply_len,
                                  !.conversation = messages,
                                  !.trace = Append(@, "chat")]
    /\ UNCHANGED <<db, twilio_numbers, outbox, stripe, subscribe, requests, events, pf>>

\* A text is its length and the number of its characters in the classes
\* clean_string removes (surrogates, modifier and other symbols, unassigned).
Text(len, glyphs) == [len |-> len, glyphs |-> glyphs]

\* emoji_pattern.sub('', input_string)
clean_string(text) == Text(text.len - text.glyphs, 0)

\* range(0, len, 1600): the start offsets of the parts
NumParts(len) == IF len > PartLimit THEN (len + PartLimit - 1) \div PartLimit ELSE 1

\* slices that are one character short of the stride
reply_parts_short(len) ==
    [k \in 1..NumParts(len) |->
        [lo |-> (k - 1) * PartLimit, hi |-> Min(k * PartLimit - 1, len)]]

\* reply[i:i+1600] as the pair of offsets <<first, past-the-end>>
reply_parts(len) ==
    [k \in 1..NumParts(len) |->
        [lo |-> (k - 1) * PartLimit, hi |-> Min(k * PartLimit, len)]]

\* messages that twilio_client.messages.create accepted: the first n_ok parts
Sent(parts, n_ok, to_number, from_number, first_sid) ==
    [k \in 1..Min(n_ok, Len(parts)) |->
        [to |-> to_number, from |-> from_number, part |-> parts[k], sid |-> first_sid + k]]

\* a sent_sid that keeps the sid of the first part only
SentSid_first_only(parts, n_ok, first_sid) ==
    IF n_ok < Len(parts) THEN [kind |-> "none", sids |-> <<>>]
    ELSE [kind |-> "single", sids |-> <<first_sid + 1>>]

\* sent_sid: None when a send raised, the sid for one part, the list for several
SentSid(parts, n_ok, first_sid) ==
    IF n_ok < Len(parts) THEN [kind |-> "none", sids |-> <<>>]
    ELSE IF Len(parts) > 1
         THEN [kind |-> "list", sids |-> [k \in 1..Len(parts) |-> first_sid + k]]
    ELSE [kind |-> "single", sids |-> <<first_sid + 1>>]

\* str(sent_sid): a sid is its own text, a list becomes the text of the list
\* and None becomes the text 'None'
str(sent_sid) ==
    IF sent_sid.kind = "none" THEN [kind |-> "str_none", sids |-> <<>>]
    ELSE IF sent_sid.kind = "list" THEN [kind |-> "str_list", sids |-> sent_sid.sids]
    ELSE sent_sid

\* a send_reply that saves the History row inside the try block, so that a
\* failed send skips it
send_reply_save_in_try(user_id, subscription_id, reply, to_number, from_number, n_ok, save_message, commit_ok) ==
    LET cleaned == clean_string(reply)
        parts == reply_parts(cleaned.len)
        first_sid == 100 + Len(outbox)
    IN [outbox |-> outbox \o Sent(parts, n_ok, to_number, from_number, first_sid),
        history |-> IF save_message /\ n_ok >= Len(parts)
                    THEN save_sms_history(history,
                            HistoryRow(user_id, subscription_id,
                                       str(SentSid(parts, n_ok, first_sid)), "outgoing",
                                       [text |-> "reply", len |-> cleaned.len]),
                            commit_ok)
                    ELSE history]

\* send_reply: the new outbox and the new History table.  The first n_ok
\* calls of messages.create return, the next one raises.
send_reply(user_id, subscription_id, reply, to_number, from_number, n_ok, save_message, commit_ok) ==
    LET cleaned == clean_string(reply)
        parts == reply_parts(cleaned.len)
        first_sid == 100 + Len(outbox)
    IN [outbox |-> outbox \o Sent(parts, n_ok, to_number, from_number, first_sid),
        history |-> IF save_message
                    THEN save_sms_history(history,
                            HistoryRow(user_id, subscription_id,
                                       str(SentSid(parts, n_ok, first_sid)), "outgoing",
                                       [text |-> "reply", len |-> cleaned.len]),
                            commit_ok)
                    ELSE history]

SmsSendReply(n_ok, commit_ok) ==
    /\ sms.pc = "send"
    /\ n_ok \in 0..NumParts(sms.reply)
    /\ LET r == send_reply(sms.user_id, sms.subscription_id, Text(sms.reply, 0),
                           sms.From, sms.To, n_ok, TRUE, commit_ok)
       IN /\ outbox' = r.outbox
          /\ history' = r.history
    /\ sms' = [sms EXCEPT !.pc = "done", !.resp = 200,
                 !.trace = @ \o <<IF n_ok = NumParts(sms.reply) THEN "send_ok" ELSE "send_fail",
                                  IF commit_ok THEN "save_out_ok" ELSE "save_out_fail">>]
    /\ UNCHANGED <<subscriptions, mobile_numbers, user_preferences, twilio_numbers,
                   stripe, subscribe, requests, events, pf>>

\* the response has been returned; the worker takes the next request
SmsDone ==
    /\ sms.pc = "done"
    /\ sms' = SmsIdle
    /\ UNCHANGED <<db, twilio_numbers, outbox, stripe, subscribe, requests, events, pf>>

(* ------------------------------------------------------------------ *)
(* Stripe billing webhook                                               *)
(* ------------------------------------------------------------------ *)

StripeIdle ==
    [pc |-> "idle", type |-> "none", id |-> "sub_1", retries |-> 0,
     subscription_record |-> 0, resp |-> "none",
     attempts |-> 0, sleeps |-> 0, lookups |-> 0, lookups_after_found |-> 0,
     first_missing |-> FALSE, raced |-> FALSE, clean_attempt |-> FALSE,
     updated |-> FALSE, modified |-> FALSE, prev_status |-> "none",
     out0 |-> 0, reply |-> 0, sends |-> <<>>]

\* a lookup that forgets the enabled=True filter
FindEnabled_any(rows, stripe_id) ==
    First({i \in 1..Len(rows) : rows[i].stripe_subscription_id = stripe_id})

\* Subscription.query.filter_by(stripe_subscription_id=..., enabled=True).first()
FindEnabled(rows, stripe_id) ==
    First({i \in 1..Len(rows) : rows[i].stripe_subscription_id = stripe_id /\ rows[i].enabled})

\* a loop condition that forgets to stop once the record is found
LoopContinues_retries_only(retries, subscription_record) ==
    retries < max_retries

\* while retries < max_retries and subscription_record is None
LoopContinues(retries, subscription_record) ==
    retries < max_retries /\ subscription_record = 0

\* an exception left the view function: the framework answers for the route
Escaped(s) == [s EXCEPT !.pc = "done", !.resp = "escaped"]

Success(s) == [s EXCEPT !.pc = "done", !.resp = "success"]

StripeStart(type, id) == [StripeIdle EXCEPT !.pc = "handler", !.type = type, !.id = id]

\* construct_event rejects the payload or the signature
StripeInvalid ==
    /\ stripe.pc = "idle"
    /\ events < MaxEvents
    /\ events' = events + 1
    /\ stripe' = [StripeIdle EXCEPT !.pc = "done", !.type = "invalid", !.resp = "error"]
    /\ UNCHANGED <<db, twilio_numbers, outbox, sms, subscribe, requests, pf>>

\* an event type none of the handlers is bound to
StripeOther ==
    /\ stripe.pc = "idle"
    /\ events < MaxEvents
    /\ events' = events + 1
    /\ stripe' = Success(StripeStart("other", "sub_1"))
    /\ UNCHANGED <<db, twilio_numbers, outbox, sms, subscribe, requests, pf>>

\* invoice.payment_succeeded: handle_payment_success starts its retry loop
StripePaymentSucceeded(id) ==
    /\ stripe.pc = "idle"
    /\ events < MaxEvents
    /\ events' = events + 1
    /\ stripe' = [StripeStart("invoice.payment_succeeded", id) EXCEPT !.pc = "retry"]
    /\ UNCHANGED <<db, twilio_numbers, outbox, sms, subscribe, requests, pf>>

PaymentUpdate(row) ==
    [row EXCEPT !.enabled = TRUE, !.billing_error = FALSE, !.status = "Active",
                !.current_period = "P1", !.last_payment_amount = 10,
                !.last_payment_date = 1]

\* one iteration of the retry loop, with its sleep.  outcome "raise": the
\* Stripe retrieve or the query raises; commit_ok: whether db.session.commit()
\* of the update succeeds.
PayAttempt(outcome, commit_ok) ==
    /\ stripe.pc = "retry"
    /\ LoopContinues(stripe.retries, stripe.subscription_record)
    /\ LET rec == IF outcome = "raise" THEN 0 ELSE FindEnabled(subscriptions, stripe.id)
           present == \E i \in 1..Len(subscriptions) :
                         /\ subscriptions[i].stripe_subscription_id = stripe.id
                         /\ subscriptions[i].enabled
           failed == rec = 0 \/ ~commit_ok
       IN /\ subscriptions' = IF rec # 0 /\ commit_ok
                              THEN [subscriptions EXCEPT ![rec] = PaymentUpdate(@)]
                              ELSE subscriptions
          /\ stripe' = [stripe EXCEPT
                 !.subscription_record = IF outcome = "raise" THEN @ ELSE rec,
                 !.retries = IF failed THEN @ + 1 ELSE @,
                 !.sleeps = IF failed THEN @ + 1 ELSE @,
                 !.attempts = @ + 1,
                 !.lookups = IF outcome = "raise" THEN @ ELSE @ + 1,
                 !.lookups_after_found =
                     IF stripe.subscription_record # 0 /\ outcome # "raise" THEN @ + 1 ELSE @,
                 !.first_missing = @ \/ (stripe.lookups = 0 /\ outcome # "raise" /\ ~present),
                 !.clean_attempt = @ \/ (present /\ outcome # "raise" /\ commit_ok),
                 !.updated = @ \/ (rec # 0 /\ commit_ok),
                 !.modified = @ \/ subscriptions' # subscriptions,
                 !.prev_status = IF rec # 0 /\ commit_ok
                                 THEN subscriptions[rec].status ELSE @]
    /\ UNCHANGED <<mobile_numbers, user_preferences, history, twilio_numbers, outbox,
                   sms, subscribe, requests, events, pf>>

\* the loop is left; handle_payment_success returns and the route answers
PayReturn ==
    /\ stripe.pc = "retry"
    /\ ~LoopContinues(stripe.retries, stripe.subscription_record)
    /\ stripe' = Success(stripe)
    /\ UNCHANGED <<db, twilio_numbers, outbox, sms, subscribe, requests, events, pf>>

\* MobileNumber.query.filter_by(user_id, subscription_id).all()
MobileEntries(user, sub) ==
    LET ok(m) == m.user_id = user /\ m.subscription_id = sub
    IN SelectSeq(mobile_numbers, ok)

\* a notification loop that a failing send leaves
RECURSIVE NotifyAll_stop_on_failure(_, _, _, _, _, _)
NotifyAll_stop_on_failure(box, entries, i, from_number, reply, sends_ok) ==
    IF i > Len(entries) THEN box
    ELSE IF sends_ok[i] < NumParts(reply)
    THEN box \o Sent(reply_parts(reply), sends_ok[i],
                     entries[i].mobile_number, from_number, 100 + Len(box))
    ELSE NotifyAll_stop_on_failure(
                   box \o Sent(reply_parts(reply), sends_ok[i],
                               entries[i].mobile_number, from_number, 100 + Len(box)),
                   entries, i + 1, from_number, reply, sends_ok)

\* the notification loop of handle_billing_issue: one send_reply per entry,
\* sends_ok[i] tells how many parts of the i-th notification are accepted
RECURSIVE NotifyAll(_, _, _, _, _, _)
NotifyAll(box, entries, i, from_number, reply, sends_ok) ==
    IF i > Len(entries) THEN box
    ELSE NotifyAll(box \o Sent(reply_parts(reply), sends_ok[i],
                               entries[i].mobile_number, from_number, 100 + Len(box)),
                   entries, i + 1, from_number, reply, sends_ok)

\* invoice.payment_failed: handle_billing_issue
StripePaymentFailed(id, commit_ok, chat_ok, reply, sends_ok) ==
    /\ stripe.pc = "idle"
    /\ events < MaxEvents
    /\ events' = events + 1
    /\ LET s == StripeStart("invoice.payment_failed", id)
           rec == FindEnabled(subscriptions, id)
           row == subscriptions[rec]
       IN IF rec = 0
          THEN /\ stripe' = Success(s)
               /\ UNCHANGED <<subscriptions, outbox>>
          ELSE IF ~commit_ok
          THEN /\ stripe' = [Escaped(s) EXCEPT !.subscription_record = rec,
                                               !.out0 = Len(outbox)]
               /\ UNCHANGED <<subscriptions, outbox>>
          ELSE /\ subscriptions' = [subscriptions EXCEPT
                                      ![rec] = [@ EXCEPT !.billing_error = TRUE,
                                                         !.status = "Billing Issue"]]
               /\ IF rec \notin user_preferences \/ ~chat_ok
                  THEN /\ stripe' = [Escaped(s) EXCEPT !.prev_status = row.status,
                                                       !.subscription_record = rec,
                                                       !.out0 = Len(outbox)]
                       /\ UNCHANGED outbox
                  ELSE /\ stripe' = [Success(s) EXCEPT
                              !.prev_status = row.status,
                              !.subscription_record = rec,
                              !.out0 = Len(outbox),
                              !.reply = reply,
                              !.sends = [i \in 1..Len(MobileEntries(row.user_id, rec)) |->
                                            Min(sends_ok[i], NumParts(reply))]]
                       /\ outbox' = NotifyAll(outbox, MobileEntries(row.user_id, rec), 1,
                                              row.twillio_number_sid, reply, sends_ok)
    /\ UNCHANGED <<mobile_numbers, user_preferences, history, twilio_numbers,
                   sms, subscribe, requests, pf>>

\* customer.subscription.deleted: handle_subscription_cancellation
StripeSubscriptionDeleted(id, delete_ok, commit_ok) ==
    /\ stripe.pc = "idle"
    /\ events < MaxEvents
    /\ events' = events + 1
    /\ LET s == StripeStart("customer.subscription.deleted", id)
           rec == FindEnabled(subscriptions, id)
           row == subscriptions[rec]
       IN IF rec = 0
          THEN \* subscription_record.user_id on None raises AttributeError
               /\ stripe' = Escaped(s)
               /\ UNCHANGED <<subscriptions, twilio_numbers>>
          ELSE /\ twilio_numbers' = IF delete_ok
                                    THEN twilio_numbers \ {row.twillio_number_sid}
                                    ELSE twilio_numbers
               /\ IF commit_ok
                  THEN /\ subscriptions' = [subscriptions EXCEPT
                                              ![rec] = [@ EXCEPT !.enabled = FALSE,
                                                                 !.status = "Cancelled",
                                                                 !.twillio_number_sid = None]]
                       /\ stripe' = [Success(s) EXCEPT !.prev_status = row.status,
                                                       !.subscription_record = rec]
                  ELSE /\ stripe' = Escaped(s)
                       /\ UNCHANGED subscriptions
    /\ UNCHANGED <<mobile_numbers, user_preferences, history, outbox,
                   sms, subscribe, requests, pf>>

\* the response has been returned; the worker takes the next event
StripeDone ==
    /\ stripe.pc = "done"
    /\ stripe' = StripeIdle
    /\ UNCHANGED <<db, twilio_numbers, outbox, sms, subscribe, requests, events, pf>>

(* ------------------------------------------------------------------ *)
(* Subscribe request of the second user                                 *)
(* ------------------------------------------------------------------ *)

\* handle_stripe_operations: the number is bought and the Subscription row is
\* committed
SubscribeCommit ==
    /\ subscribe = "idle"
    /\ subscribe' = "created"
    /\ subscriptions' = Append(subscriptions, NewSubscription(2, "sub_2", "PN2"))
    /\ twilio_numbers' = twilio_numbers \cup {"PN2"}
    /\ stripe' = IF /\ stripe.pc = "retry"
                    /\ stripe.id = "sub_2"
                    /\ stripe.first_missing
                    /\ stripe.retries < max_retries
                 THEN [stripe EXCEPT !.raced = TRUE]
                 ELSE stripe
    /\ UNCHANGED <<mobile_numbers, user_preferences, history, outbox, sms,
                   requests, events, pf>>

\* save_user_and_assistant_preferences: preferences, then the mobile number
SubscribeSavePreferences(commit_ok) ==
    /\ subscribe = "created"
    /\ subscribe' = "done"
    /\ LET sub == Len(subscriptions)
       IN IF commit_ok
          THEN /\ user_preferences' = user_preferences \cup {sub}
               /\ mobile_numbers' = Append(mobile_numbers,
                                       [user_id |-> 2, subscription_id |-> sub,
                                        mobile_number |-> "M2"])
          ELSE UNCHANGED <<user_preferences, mobile_numbers>>
    /\ UNCHANGED <<subscriptions, history, twilio_numbers, outbox, sms, stripe,
                   requests, events, pf>>

(* ------------------------------------------------------------------ *)
(* Specification                                                        *)
(* ------------------------------------------------------------------ *)

Init ==
    /\ subscriptions = <<NewSubscription(1, "sub_1", "PN1")>>
    /\ mobile_numbers = <<[user_id |-> 1, subscription_id |-> 1, mobile_number |-> "M1"]>>
    /\ user_preferences = {1}
    /\ history = <<>>
    /\ twilio_numbers = {"PN1"}
    /\ outbox = <<>>
    /\ sms = SmsIdle
    /\ stripe = StripeIdle
    /\ subscribe = "idle"
    /\ requests = 0
    /\ events = 0
    /\ pf = [fn |-> "none"]

NextSms ==
    \/ \E sig \in BOOLEAN, from \in FromNumbers, to \in ToNumbers, body \in Bodies :
          SmsReceive(sig, from, to, body)
    \/ \E outcome \in {"ok", "raise"} : SmsLookup(outcome)
    \/ \E db_ok \in BOOLEAN : SmsValidate(db_ok)
    \/ \E commit_ok \in BOOLEAN : SmsSaveIncoming(commit_ok)
    \/ \E run \in EnrichRuns : SmsEnrich(run)
    \/ SmsBuildPrompt
    \/ \E outcome \in {"ok", "raise"}, reply_len \in ReplyLens : SmsChat(outcome, reply_len)
    \/ \E n_ok \in 0..3, commit_ok \in BOOLEAN : SmsSendReply(n_ok, commit_ok)
    \/ SmsDone

NextSubscribe ==
    \/ SubscribeCommit
    \/ \E commit_ok \in BOOLEAN : SubscribeSavePreferences(commit_ok)

NextBilling ==
    \/ StripeInvalid
    \/ StripeOther
    \/ \E id \in StripeIds : StripePaymentSucceeded(id)
    \/ \E outcome \in {"ok", "raise"}, commit_ok \in BOOLEAN : PayAttempt(outcome, commit_ok)
    \/ PayReturn
    \/ \E id \in StripeIds, commit_ok \in BOOLEAN, chat_ok \in BOOLEAN,
          reply \in ReplyLens, sends_ok \in [1..1 -> 0..3] :
          StripePaymentFailed(id, commit_ok, chat_ok, reply, sends_ok)
    \/ \E id \in StripeIds, delete_ok \in BOOLEAN, commit_ok \in BOOLEAN :
          StripeSubscriptionDeleted(id, delete_ok, commit_ok)
    \/ StripeDone

Next == NextSms \/ NextSubscribe \/ NextBilling

Spec == Init /\ [][Next]_vars

SpecSms == Init /\ [][NextSms \/ NextSubscribe]_vars

SpecBilling == Init /\ [][NextBilling \/ NextSubscribe]_vars

\* the SMS worker receiving messages of the first user on the first number
\* while the billing worker handles the events of that subscription
NextGate ==
    \/ \E sig \in BOOLEAN : SmsReceive(sig, "M1", "PN1", "txt")
    \/ \E outcome \in {"ok", "raise"} : SmsLookup(outcome)
    \/ \E db_ok \in BOOLEAN : SmsValidate(db_ok)
    \/ \E commit_ok \in BOOLEAN : SmsSaveIncoming(commit_ok)
    \/ \E run \in EnrichRuns : SmsEnrich(run)
    \/ SmsBuildPrompt
    \/ \E outcome \in {"ok", "raise"} : SmsChat(outcome, PartLimit)
    \/ \E n_ok \in 0..1, commit_ok \in BOOLEAN : SmsSendReply(n_ok, commit_ok)
    \/ SmsDone
    \/ \E commit_ok \in BOOLEAN, chat_ok \in BOOLEAN, sends_ok \in [1..1 -> 0..1] :
          StripePaymentFailed("sub_1", commit_ok, chat_ok, PartLimit, sends_ok)
    \/ StripePaymentSucceeded("sub_1")
    \/ \E outcome \in {"ok", "raise"}, commit_ok \in BOOLEAN : PayAttempt(outcome, commit_ok)
    \/ PayReturn
    \/ \E delete_ok \in BOOLEAN, commit_ok \in BOOLEAN :
          StripeSubscriptionDeleted("sub_1", delete_ok, commit_ok)
    \/ StripeDone

SpecGate == Init /\ [][NextGate]_vars

\* the MobileNumber rows a subscription can hold: any list of numbers
MobileTables ==
    UNION {[1..n -> [user_id : {1}, subscription_id : {1}, mobile_number : {"M1", "M2"}]] :
             n \in 0..MaxEntries}

InitNotify ==
    /\ subscriptions = <<NewSubscription(1, "sub_1", "PN1")>>
    /\ mobile_numbers \in MobileTables
    /\ user_preferences = {1}
    /\ history = <<>>
    /\ twilio_numbers = {"PN1"}
    /\ outbox = <<>>
    /\ sms = SmsIdle
    /\ stripe = StripeIdle
    /\ subscribe = "idle"
    /\ requests = 0
    /\ events = 0
    /\ pf = [fn |-> "none"]

\* one invoice.payment_failed event handled on each table
NextNotify ==
    \/ /\ events = 0
       /\ \E commit_ok \in BOOLEAN, chat_ok \in BOOLEAN, reply \in ReplyLens,
             sends_ok \in [1..MaxEntries -> 0..3] :
             StripePaymentFailed("sub_1", commit_ok, chat_ok, reply, sends_ok)
    \/ StripeDone

SpecNotify == InitNotify /\ [][NextNotify]_vars

(* ------------------------------------------------------------------ *)
(* process_questions_answers as a function of its inputs               *)
(* ------------------------------------------------------------------ *)

InitEnrich ==
    /\ subscriptions = <<NewSubscription(1, "sub_1", "PN1")>>
    /\ mobile_numbers = <<[user_id |-> 1, subscription_id |-> 1, mobile_number |-> "M1"]>>
    /\ user_preferences = {1}
    /\ history = <<>>
    /\ twilio_numbers = {"PN1"}
    /\ outbox = <<>>
    /\ sms = SmsIdle
    /\ stripe = StripeIdle
    /\ subscribe = "idle"
    /\ requests = 0
    /\ events = 0
    /\ pf \in [fn : {"process_questions_answers"}, applied : {FALSE},
                text : Bodies, lines : LineSeqs, call_ok : BOOLEAN,
                fetched : FetchSeqs, answered : AnswerSeqs, questions : {<<>>},
                out : {NoAnswers}]

ApplyEnrich ==
    /\ ~pf.applied
    /\ pf' = [pf EXCEPT !.applied = TRUE,
                        !.questions = IF Strip(pf.text) = "" THEN <<>>
                                      ELSE extract_questions(pf.lines, pf.call_ok),
                        !.out = process_questions_answers(pf.text, pf.lines, pf.call_ok,
                                                          pf.fetched, pf.answered)]
    /\ UNCHANGED <<db, twilio_numbers, outbox, sms, stripe, subscribe, requests, events>>

SpecEnrich == InitEnrich /\ [][ApplyEnrich]_vars

(* ------------------------------------------------------------------ *)
(* build_system_prompt as a function of its inputs                      *)
(* ------------------------------------------------------------------ *)

\* what the callers pass as extra_info: None, or the list of answers of the
\* enrichment, which can hold None
ExtraInfos ==
    {NoAnswers} \cup
    {[none |-> FALSE, list |-> l] :
        l \in UNION {[1..n -> {"A1", "A2", None}] : n \in 0..MaxLines}}

SystemMessages == {None, "", "welcome", "billing issue"}

InitPrompt ==
    /\ subscriptions = <<NewSubscription(1, "sub_1", "PN1")>>
    /\ mobile_numbers = <<[user_id |-> 1, subscription_id |-> 1, mobile_number |-> "M1"]>>
    /\ user_preferences = {1}
    /\ history = <<>>
    /\ twilio_numbers = {"PN1"}
    /\ outbox = <<>>
    /\ sms = SmsIdle
    /\ stripe = StripeIdle
    /\ subscribe = "idle"
    /\ requests = 0
    /\ events = 0
    /\ pf \in [fn : {"build_system_prompt"}, applied : {FALSE}, extra_info : ExtraInfos,
                system_message : SystemMessages,
                out : {[raised |-> FALSE, prompt |-> NoPrompt]}]

ApplyPrompt ==
    /\ ~pf.applied
    /\ pf' = [pf EXCEPT !.applied = TRUE,
                        !.out = build_system_prompt(pf.extra_info, pf.system_message)]
    /\ UNCHANGED <<db, twilio_numbers, outbox, sms, stripe, subscribe, requests, events>>

SpecPrompt == InitPrompt /\ [][ApplyPrompt]_vars

(* ------------------------------------------------------------------ *)
(* The conversation of build_and_send_messages_openai                   *)
(* ------------------------------------------------------------------ *)

InitChat ==
    /\ subscriptions = <<NewSubscription(1, "sub_1", "PN1"), NewSubscription(2, "sub_2", "PN2")>>
    /\ mobile_numbers = <<[user_id |-> 1, subscription_id |-> 1, mobile_number |-> "M1"],
                          [user_id |-> 2, subscription_id |-> 2, mobile_number |-> "M2"]>>
    /\ user_preferences = {1, 2}
    /\ history = <<>>
    /\ twilio_numbers = {"PN1", "PN2"}
    /\ outbox = <<>>
    /\ sms = SmsIdle
    /\ stripe = StripeIdle
    /\ subscribe = "done"
    /\ requests = 0
    /\ events = 0
    /\ pf = [fn |-> "build_and_send_messages_openai", applied |-> FALSE,
             user_id |-> 1, subscription_id |-> 1, out |-> <<>>]

\* an earlier request of one of the two subscriptions saves a row: the i-th
\* row carries the i-th message
StoreRow(subscription_id, direction) ==
    /\ ~pf.applied
    /\ Len(history) < MaxHistory
    /\ history' = save_sms_history(history,
                     HistoryRow(subscription_id, subscription_id,
                                [kind |-> "single", sids |-> <<Len(history) + 1>>],
                                direction, [text |-> "txt", len |-> Len(history) + 1]),
                     TRUE)
    /\ UNCHANGED <<subscriptions, mobile_numbers, user_preferences, twilio_numbers,
                   outbox, sms, stripe, subscribe, requests, events, pf>>

\* routes.py 585-587: the history is loaded newest first and the conversation built
ApplyChat ==
    /\ ~pf.applied
    /\ pf' = [pf EXCEPT
                 !.applied = TRUE,
                 !.out = Conversation(NoPrompt,
                            [none |-> FALSE,
                             list |-> load_sms_history(history, pf.user_id,
                                                       pf.subscription_id, "desc").result])]
    /\ UNCHANGED <<db, twilio_numbers, outbox, sms, stripe, subscribe, requests, events>>

NextChat ==
    \/ \E subscription_id \in {1, 2}, direction \in {"incoming", "outgoing"} :
          StoreRow(subscription_id, direction)
    \/ ApplyChat

SpecChat == InitChat /\ [][NextChat]_vars

(* ------------------------------------------------------------------ *)
(* send_reply as a function of its inputs                               *)
(* ------------------------------------------------------------------ *)

RawLens == {0, 1, PartLimit - 1, PartLimit, PartLimit + 1, 2 * PartLimit,
            2 * PartLimit + 1, 3500, 3502}

ReplyTexts == {Text(len, glyphs) : len \in RawLens, glyphs \in 0..2} \ {Text(0, 1), Text(0, 2), Text(1, 2)}

InitReply ==
    /\ subscriptions = <<NewSubscription(1, "sub_1", "PN1")>>
    /\ mobile_numbers = <<[user_id |-> 1, subscription_id |-> 1, mobile_number |-> "M1"]>>
    /\ user_preferences = {1}
    /\ history = <<>>
    /\ twilio_numbers = {"PN1"}
    /\ outbox = <<>>
    /\ sms = SmsIdle
    /\ stripe = StripeIdle
    /\ subscribe = "idle"
    /\ requests = 0
    /\ events = 0
    /\ pf \in [fn : {"send_reply"}, applied : {FALSE}, reply : ReplyTexts,
                n_ok : 0..3, save_message : BOOLEAN, commit_ok : BOOLEAN]

ApplyReply ==
    /\ ~pf.applied
    /\ pf' = [pf EXCEPT !.applied = TRUE]
    /\ LET r == send_reply(1, 1, pf.reply, "M1", "PN1", pf.n_ok, pf.save_message,
                           pf.commit_ok)
       IN /\ outbox' = r.outbox
          /\ history' = r.history
    /\ UNCHANGED <<subscriptions, mobile_numbers, user_preferences, twilio_numbers,
                   sms, stripe, subscribe, requests, events>>

SpecReply == InitReply /\ [][ApplyReply]_vars

(* ------------------------------------------------------------------ *)
(* clean_data as a function of its input                                *)
(* ------------------------------------------------------------------ *)

\* the keys clean_data removes
keys_to_remove ==
    {"xpath", "image_url", "url", "images", "cache_url", "is_image", "is_video", "type",
     "rank_group", "rank_absolute", "position", "rectangle", "reviews_count", "rating",
     "place_id", "feature", "cid", "data_attrid", "domain", "faq",
     "extended_people_also_search", "about_this_result", "timestamp", "related_result",
     "se_domain", "location_code", "language_code", "check_url", "datetime",
     "se_results_count", "items_count", "related_search_url", "breadcrumb",
     "is_malicious", "is_web_story", "amp_version", "card_id", "logo_url",
     "is_featured_snippet", "pre_snippet", "extended_snippet", "price", "links"}

\* A JSON value: a scalar, a dict (its items in key order, keys distinct) or
\* a list (its items in order, key None).
Leaf(v) == [kind |-> "leaf", value |-> v, items |-> <<>>]
Item(key, node) == [key |-> key, node |-> node]
Dict(keys, nodes) == [kind |-> "dict", value |-> None, items |-> [i \in 1..Len(nodes) |-> Item(keys[i], nodes[i])]]
List(nodes) == [kind |-> "list", value |-> None, items |-> [i \in 1..Len(nodes) |-> Item(None, nodes[i])]]

\* keys of the search results: two that are kept and one that is removed
JsonKeys == {"title", "url", "snippet"}
\* a scalar: the text 'url', which is a value and not a key
JsonScalars == {"url"}

RECURSIVE Size(_), SizeItems(_, _)
\* the number of nodes of a JSON value
Size(data) == 1 + SizeItems(data.items, 1)

SizeItems(items, i) ==
    IF i > Len(items) THEN 0 ELSE Size(items[i].node) + SizeItems(items, i + 1)

RECURSIVE ContainerPaths(_)
\* the dicts and lists of a JSON value, each as the item indexes that lead to it
ContainerPaths(data) ==
    IF data.kind = "leaf" THEN {}
    ELSE {<<>>} \cup UNION {{<<i>> \o p : p \in ContainerPaths(data.items[i].node)} : i \in 1..Len(data.items)}

RECURSIVE NodeAt(_, _)
NodeAt(data, path) ==
    IF path = <<>> THEN data ELSE NodeAt(data.items[Head(path)].node, Tail(path))

RECURSIVE WithItem(_, _, _)
\* the JSON value with one more item at the end of the container at path
WithItem(data, path, item) ==
    IF path = <<>> THEN [data EXCEPT !.items = Append(@, item)]
    ELSE [data EXCEPT !.items[Head(path)].node = WithItem(@, Tail(path), item)]

\* the JSON values of one node
JsonSeeds == {Leaf(v) : v \in JsonScalars} \cup {Dict(<<>>, <<>>), List(<<>>)}

RECURSIVE remove_keys_dicts_only(_, _)
\* remove_keys without the descent into lists
remove_keys_dicts_only(data, keys) ==
    IF data.kind = "dict"
    THEN LET kept == SelectSeq(data.items, LAMBDA it : it.key \notin keys)
         IN [data EXCEPT !.items = [i \in 1..Len(kept) |->
                 Item(kept[i].key, remove_keys_dicts_only(kept[i].node, keys))]]
    ELSE data

RECURSIVE remove_keys(_, _)
remove_keys(data, keys) ==
    IF data.kind = "dict"
    THEN LET kept == SelectSeq(data.items, LAMBDA it : it.key \notin keys)
         IN [data EXCEPT !.items = [i \in 1..Len(kept) |->
                 Item(kept[i].key, remove_keys(kept[i].node, keys))]]
    ELSE IF data.kind = "list"
    THEN [data EXCEPT !.items = [i \in 1..Len(data.items) |->
                 Item(None, remove_keys(data.items[i].node, keys))]]
    ELSE data

\* a token of the JSON text
Token(tok, text) == [tok |-> tok, text |-> text]

RECURSIVE json_dumps(_), DumpItems(_, _)
\* json.dumps: the text of a value as its sequence of tokens (white space,
\* which indent=2 adds, left out)
json_dumps(data) ==
    IF data.kind = "dict"
    THEN <<Token("{", "")>> \o DumpItems(data.items, 1) \o <<Token("}", "")>>
    ELSE IF data.kind = "list"
    THEN <<Token("[", "")>> \o DumpItems(data.items, 1) \o <<Token("]", "")>>
    ELSE <<Token("string", data.value)>>

DumpItems(items, i) ==
    IF i > Len(items) THEN <<>>
    ELSE (IF i > 1 THEN <<Token(",", "")>> ELSE <<>>)
         \o (IF items[i].key = None THEN <<>> ELSE <<Token("key", items[i].key)>>)
         \o json_dumps(items[i].node)
         \o DumpItems(items, i + 1)

clean_data(data) ==
    LET cleaned_data == remove_keys(data, keys_to_remove)
    IN [cleaned_data |-> cleaned_data, cleaned_json |-> json_dumps(cleaned_data)]

InitClean ==
    /\ subscriptions = <<NewSubscription(1, "sub_1", "PN1")>>
    /\ mobile_numbers = <<[user_id |-> 1, subscription_id |-> 1, mobile_number |-> "M1"]>>
    /\ user_preferences = {1}
    /\ history = <<>>
    /\ twilio_numbers = {"PN1"}
    /\ outbox = <<>>
    /\ sms = SmsIdle
    /\ stripe = StripeIdle
    /\ subscribe = "idle"
    /\ requests = 0
    /\ events = 0
    /\ pf \in [fn : {"clean_data"}, applied : {FALSE}, data : JsonSeeds,
                out : {[cleaned_data |-> Leaf("url"), cleaned_json |-> <<>>]}]

\* the search result gets one more key or list element
GrowJson(key, node) ==
    /\ ~pf.applied
    /\ Size(pf.data) < MaxNodes
    /\ \E path \in ContainerPaths(pf.data) :
          /\ LET parent == NodeAt(pf.data, path)
             IN IF parent.kind = "dict"
                THEN /\ key # None
                     /\ \A i \in 1..Len(parent.items) : parent.items[i].key # key
                ELSE key = None
          /\ pf' = [pf EXCEPT !.data = WithItem(@, path, Item(key, node))]
    /\ UNCHANGED <<db, twilio_numbers, outbox, sms, stripe, subscribe, requests, events>>

ApplyClean ==
    /\ ~pf.applied
    /\ pf' = [pf EXCEPT !.applied = TRUE, !.out = clean_data(pf.data)]
    /\ UNCHANGED <<db, twilio_numbers, outbox, sms, stripe, subscribe, requests, events>>

NextClean ==
    \/ \E key \in JsonKeys \cup {None}, node \in JsonSeeds : GrowJson(key, node)
    \/ ApplyClean

SpecClean == InitClean /\ [][NextClean]_vars

(* ------------------------------------------------------------------ *)
(* format_phone_number as a function of its input                       *)
(* ------------------------------------------------------------------ *)

\* what the filter is given: a text as the sequence of its characters, or None
PhoneNone == [is_none |-> TRUE, chars |-> <<>>]
Phone(chars) == [is_none |-> FALSE, chars |-> chars]

startswith_plus_one(chars) ==
    Len(chars) >= 2 /\ chars[1] = "+" /\ chars[2] = "1"

\* None has no startswith: the exception handler returns the input
format_phone_number(phone_number) ==
    IF phone_number.is_none THEN phone_number
    ELSE LET chars == phone_number.chars
         IN IF ~startswith_plus_one(chars) \/ Len(chars) # 12 THEN phone_number
            ELSE Phone(<<"+", "1", " ", "(">> \o SubSeq(chars, 3, 5) \o <<")", " ">>
                       \o SubSeq(chars, 6, 8) \o <<"-">> \o SubSeq(chars, 9, Len(chars)))

\* how the text given to the filter begins
PhonePrefixes == {<<"+", "1">>, <<"+", "4">>, <<"1", "5">>}
\* a digit and a character that is no digit
PhoneChars == {"5", "x"}

InitPhone ==
    /\ subscriptions = <<NewSubscription(1, "sub_1", "PN1")>>
    /\ mobile_numbers = <<[user_id |-> 1, subscription_id |-> 1, mobile_number |-> "M1"]>>
    /\ user_preferences = {1}
    /\ history = <<>>
    /\ twilio_numbers = {"PN1"}
    /\ outbox = <<>>
    /\ sms = SmsIdle
    /\ stripe = StripeIdle
    /\ subscribe = "idle"
    /\ requests = 0
    /\ events = 0
    /\ pf \in [fn : {"format_phone_number"}, applied : {FALSE},
                phone_number : {PhoneNone} \cup {Phone(p) : p \in PhonePrefixes},
                out : {PhoneNone}]

\* the text given to the filter has one more character
TypeChar(c) ==
    /\ ~pf.applied
    /\ ~pf.phone_number.is_none
    /\ Len(pf.phone_number.chars) < MaxPhoneLen
    /\ pf' = [pf EXCEPT !.phone_number.chars = Append(@, c)]
    /\ UNCHANGED <<db, twilio_numbers, outbox, sms, stripe, subscribe, requests, events>>

ApplyPhone ==
    /\ ~pf.applied
    /\ pf' = [pf EXCEPT !.applied = TRUE,
                        !.out = format_phone_number(pf.phone_number)]
    /\ UNCHANGED <<db, twilio_numbers, outbox, sms, stripe, subscribe, requests, events>>

NextPhone ==
    \/ \E c \in PhoneChars : TypeChar(c)
    \/ ApplyPhone

SpecPhone == InitPhone /\ [][NextPhone]_vars

(* ------------------------------------------------------------------ *)
(* load_sms_history as a function of the History table                  *)
(* ------------------------------------------------------------------ *)

\* values of order other than 'asc' and 'desc'
OtherOrders == {"ASC", "newest", ""}

NotLoaded == [raised |-> None, queried |-> FALSE, result |-> <<>>]

InitHistory ==
    /\ subscriptions = <<NewSubscription(1, "sub_1", "PN1"), NewSubscription(2, "sub_2", "PN2")>>
    /\ mobile_numbers = <<[user_id |-> 1, subscription_id |-> 1, mobile_number |-> "M1"],
                          [user_id |-> 2, subscription_id |-> 2, mobile_number |-> "M2"]>>
    /\ user_preferences = {1, 2}
    /\ history = <<>>
    /\ twilio_numbers = {"PN1", "PN2"}
    /\ outbox = <<>>
    /\ sms = SmsIdle
    /\ stripe = StripeIdle
    /\ subscribe = "done"
    /\ requests = 0
    /\ events = 0
    /\ pf = [fn |-> "load_sms_history", applied |-> FALSE, user_id |-> 1,
             subscription_id |-> 1, order |-> None,
             out |-> [asc |-> NotLoaded, desc |-> NotLoaded, other |-> NotLoaded]]

\* the same table is loaded with order 'asc', with order 'desc' and with
\* another value of order
ApplyHistory(order) ==
    /\ ~pf.applied
    /\ pf' = [pf EXCEPT
                 !.applied = TRUE,
                 !.order = order,
                 !.out = [asc |-> load_sms_history(history, pf.user_id, pf.subscription_id, "asc"),
                          desc |-> load_sms_history(history, pf.user_id, pf.subscription_id, "desc"),
                          other |-> load_sms_history(history, pf.user_id, pf.subscription_id, order)]]
    /\ UNCHANGED <<db, twilio_numbers, outbox, sms, stripe, subscribe, requests, events>>

NextHistory ==
    \/ \E subscription_id \in {1, 2}, direction \in {"incoming", "outgoing"} :
          StoreRow(subscription_id, direction)
    \/ \E order \in OtherOrders : ApplyHistory(order)

SpecHistory == InitHistory /\ [][NextHistory]_vars

(* ------------------------------------------------------------------ *)
(* The life of one subscription: its messages and its billing events    *)
(* ------------------------------------------------------------------ *)

\* the enabled subscription the dashboard shows for a user:
\* Subscription.query.filter_by(user_id=user.id, enabled=True).first()
EnabledOf(rows, user) ==
    First({i \in 1..Len(rows) : rows[i].user_id = user /\ rows[i].enabled})

\* MobileNumber.query.filter_by(user_id, subscription_id).first()
FirstMobile(user, sub) ==
    First({i \in 1..Len(mobile_numbers) :
              mobile_numbers[i].user_id = user /\ mobile_numbers[i].subscription_id = sub})

\* POST /dashboard of the first user.  The form is processed when the user
\* has an enabled subscription without billing error; the 'assistant' form
\* rewrites the assistant preferences, the 'user' form the user preferences
\* and the mobile number, in one commit.
DashboardPost(process_form, user_mobile, commit_ok) ==
    /\ LET sub == EnabledOf(subscriptions, 1)
           mobile == FirstMobile(1, sub)
       IN /\ sub # 0
          /\ ~subscriptions[sub].billing_error
          /\ mobile_numbers' =
                IF process_form = "user" /\ sub \in user_preferences /\ mobile # 0 /\ commit_ok
                THEN [mobile_numbers EXCEPT ![mobile].mobile_number = user_mobile]
                ELSE mobile_numbers
    /\ UNCHANGED <<subscriptions, user_preferences, history, twilio_numbers, outbox,
                   sms, stripe, subscribe, requests, events, pf>>

\* an enrichment that finds no question in the message
PlainRuns == {run \in EnrichRuns : run.answers.list = <<>> /\ ~run.failed}

\* the first user's phone writes to the first number while the billing
\* worker handles the events of that subscription; the number listing, the
\* lookup of the sender and the retrieval of the invoice's subscription answer
NextLife ==
    \/ \E sig \in BOOLEAN : SmsReceive(sig, "M1", "PN1", "txt")
    \/ SmsLookup("ok")
    \/ SmsValidate(TRUE)
    \/ \E commit_ok \in BOOLEAN : SmsSaveIncoming(commit_ok)
    \/ \E run \in PlainRuns : SmsEnrich(run)
    \/ SmsBuildPrompt
    \/ \E outcome \in {"ok", "raise"} : SmsChat(outcome, PartLimit)
    \/ \E n_ok \in 0..1, commit_ok \in BOOLEAN : SmsSendReply(n_ok, commit_ok)
    \/ SmsDone
    \/ \E commit_ok \in BOOLEAN, chat_ok \in BOOLEAN, sends_ok \in [1..1 -> 0..1] :
          StripePaymentFailed("sub_1", commit_ok, chat_ok, PartLimit, sends_ok)
    \/ StripePaymentSucceeded("sub_1")
    \/ \E commit_ok \in BOOLEAN : PayAttempt("ok", commit_ok)
    \/ PayReturn
    \/ \E delete_ok \in BOOLEAN, commit_ok \in BOOLEAN :
          StripeSubscriptionDeleted("sub_1", delete_ok, commit_ok)
    \/ StripeDone

SpecLife == Init /\ [][NextLife]_vars

\* the requests of the subscription and the dashboard posts of the first
\* user, handled one after the other by a single worker
NextLog ==
    /\ \/ NextLife
       \/ \E process_form \in {"assistant", "user"}, user_mobile \in {"M1", "M2"},
             commit_ok \in BOOLEAN : DashboardPost(process_form, user_mobile, commit_ok)
    /\ sms'.pc = "idle" \/ stripe'.pc = "idle"

SpecLog == Init /\ [][NextLog]_vars

(* ------------------------------------------------------------------ *)
(* Subscribe requests of one user, step by step                         *)
(* ------------------------------------------------------------------ *)

\* the POST /subscribe requests the second user submits
Submits == 1..MaxSubmits

\* what Stripe and the telephony provider hand to the w-th request
StripeIdOf(w) == IF w = 1 THEN "sub_2" ELSE IF w = 2 THEN "sub_3" ELSE "sub_4"
NumberSidOf(w) == IF w = 1 THEN "PN2" ELSE IF w = 2 THEN "PN3" ELSE "PN4"

\* a request: remote is whether the Stripe subscription it created exists,
\* paid whether its first invoice was paid, number the number it bought,
\* row the Subscription row it added, result what handle_stripe_operations
\* returned
SubmitIdle ==
    [pc |-> "idle", remote |-> FALSE, paid |-> FALSE, number |-> None, row |-> 0,
     result |-> "none", deleted_first |-> FALSE]

Failure(s) == [s EXCEPT !.pc = "done", !.result = "failure"]

\* check_user_subscription: the form is processed when the user has no
\* enabled subscription
SubmitCheck(w) ==
    /\ subscribe[w].pc = "idle"
    /\ subscribe' = [subscribe EXCEPT ![w].pc = IF EnabledOf(subscriptions, 2) = 0
                                               THEN "charge" ELSE "done"]
    /\ UNCHANGED <<db, twilio_numbers, outbox, sms, stripe, requests, events, pf>>

\* handle_stripe_operations up to the payment check.  outcome: "payment_info"
\* the customer or the payment method cannot be saved, "create_raises"
\* stripe.Subscription.create raises, "succeeded" the first invoice is paid,
\* "unpaid" it is not and the subscription is deleted, "unpaid_delete_raises"
\* it is not and stripe.Subscription.delete raises
SubmitCharge(w, outcome) ==
    /\ subscribe[w].pc = "charge"
    /\ subscribe' = [subscribe EXCEPT ![w] =
          IF outcome \in {"payment_info", "create_raises"} THEN Failure(@)
          ELSE IF outcome = "unpaid" THEN [Failure(@) EXCEPT !.deleted_first = TRUE]
          ELSE IF outcome = "unpaid_delete_raises" THEN [Failure(@) EXCEPT !.remote = TRUE]
          ELSE [@ EXCEPT !.pc = "provision", !.remote = TRUE, !.paid = TRUE]]
    /\ UNCHANGED <<db, twilio_numbers, outbox, sms, stripe, requests, events, pf>>

\* the product is retrieved and search_and_buy_sms_number runs.  outcome:
\* "product_raises", "number_raises" (the listing or the purchase raises),
\* "no_number" (no number is on offer: (None, None)), "bought"
SubmitProvision(w, outcome) ==
    /\ subscribe[w].pc = "provision"
    /\ subscribe' = [subscribe EXCEPT ![w] =
          IF outcome \in {"product_raises", "number_raises"} THEN Failure(@)
          ELSE IF outcome = "no_number" THEN [@ EXCEPT !.pc = "commit"]
          ELSE [@ EXCEPT !.pc = "commit", !.number = NumberSidOf(w)]]
    /\ twilio_numbers' = IF outcome = "bought" THEN twilio_numbers \cup {NumberSidOf(w)}
                         ELSE twilio_numbers
    /\ UNCHANGED <<db, outbox, sms, stripe, requests, events, pf>>

\* the Subscription row is added and committed; a failing commit is caught
\* by the handler of handle_stripe_operations
SubmitCommit(w, commit_ok) ==
    /\ subscribe[w].pc = "commit"
    /\ subscriptions' = IF commit_ok
                        THEN Append(subscriptions,
                                    NewSubscription(2, StripeIdOf(w), subscribe[w].number))
                        ELSE subscriptions
    /\ subscribe' = [subscribe EXCEPT ![w] =
          IF commit_ok
          THEN [@ EXCEPT !.pc = "preferences", !.result = "success",
                         !.row = Len(subscriptions) + 1]
          ELSE Failure(@)]
    /\ UNCHANGED <<mobile_numbers, user_preferences, history, twilio_numbers, outbox,
                   sms, stripe, requests, events, pf>>

\* save_user_and_assistant_preferences: the preference rows and the mobile number
SubmitPreferences(w, commit_ok) ==
    /\ subscribe[w].pc = "preferences"
    /\ subscribe' = [subscribe EXCEPT ![w].pc = "done"]
    /\ IF commit_ok
       THEN /\ user_preferences' = user_preferences \cup {subscribe[w].row}
            /\ mobile_numbers' = Append(mobile_numbers,
                                    [user_id |-> 2, subscription_id |-> subscribe[w].row,
                                     mobile_number |-> "M2"])
       ELSE UNCHANGED <<user_preferences, mobile_numbers>>
    /\ UNCHANGED <<subscriptions, history, twilio_numbers, outbox, sms, stripe,
                   requests, events, pf>>

InitSubscribe ==
    /\ subscriptions = <<NewSubscription(1, "sub_1", "PN1")>>
    /\ mobile_numbers = <<[user_id |-> 1, subscription_id |-> 1, mobile_number |-> "M1"]>>
    /\ user_preferences = {1}
    /\ history = <<>>
    /\ twilio_numbers = {"PN1"}
    /\ outbox = <<>>
    /\ sms = SmsIdle
    /\ stripe = StripeIdle
    /\ subscribe = [w \in Submits |-> SubmitIdle]
    /\ requests = 0
    /\ events = 0
    /\ pf = [fn |-> "none"]

\* the requests of the user and the billing events of the subscriptions
\* they create
NextSubscribeSteps ==
    \/ \E w \in Submits : SubmitCheck(w)
    \/ \E w \in Submits, outcome \in {"payment_info", "create_raises", "succeeded",
                                      "unpaid", "unpaid_delete_raises"} :
          SubmitCharge(w, outcome)
    \/ \E w \in Submits, outcome \in {"product_raises", "number_raises", "no_number",
                                      "bought"} : SubmitProvision(w, outcome)
    \/ \E w \in Submits, commit_ok \in BOOLEAN : SubmitCommit(w, commit_ok)
    \/ \E w \in Submits, commit_ok \in BOOLEAN : SubmitPreferences(w, commit_ok)
    \/ \E w \in Submits : StripePaymentSucceeded(StripeIdOf(w))
    \/ \E commit_ok \in BOOLEAN : PayAttempt("ok", commit_ok)
    \/ PayReturn
    \/ \E w \in Submits, delete_ok \in BOOLEAN, commit_ok \in BOOLEAN :
          StripeSubscriptionDeleted(StripeIdOf(w), delete_ok, commit_ok)
    \/ StripeDone

SpecSubscribe == InitSubscribe /\ [][NextSubscribeSteps]_vars

(* ------------------------------------------------------------------ *)
(* Properties of the inbound SMS webhook (SpecSms)                      *)
(* ------------------------------------------------------------------ *)

SmsAnswered == sms.pc = "done"

NoSideEffects == Len(history) = sms.hist0 /\ Len(outbox) = sms.out0

\* the History rows and the messages this request has added
AddedRows == SubSeq(history, sms.hist0 + 1, Len(history))
AddedMessages == SubSeq(outbox, sms.out0 + 1, Len(outbox))

IsIncoming(r) == r.direction = "incoming"
IsOutgoing(r) == r.direction = "outgoing"

\* C1: a request whose signature fails validation is answered with 403,
\* writes no History row and sends no message.
C1_InvalidSignatureIs403 ==
    (SmsAnswered /\ ~sms.sig) => (sms.resp = 403 /\ NoSideEffects)

\* C2: a validly signed request whose destination cannot be resolved to an
\* enabled subscription, or whose origin matches no MobileNumber row of it
\* (a failing lookup included), is answered with 403 and never 500, writes no
\* History row and sends no message.
C2_UnresolvedIs403 ==
    (SmsAnswered /\ sms.sig /\ sms.unresolved) => (sms.resp = 403 /\ NoSideEffects)

\* C3: whenever 200 is returned, the incoming row was persisted, the
\* enrichment ran, the chat completion was called, the reply was sent and
\* exactly one outgoing row was persisted, in this order.
C3_OkMeansAllStepsDone ==
    (SmsAnswered /\ sms.resp = 200) =>
        /\ sms.trace = <<"save_in_ok", "enrich", "chat", "send_ok", "save_out_ok">>
        /\ Len(SelectSeq(AddedRows, IsIncoming)) = 1
        /\ Len(SelectSeq(AddedRows, IsOutgoing)) = 1
        /\ Len(AddedMessages) = NumParts(sms.reply)

\* C3 as amended: whenever 200 is returned, the save of the incoming row, the
\* enrichment, the chat completion, the send and the save of one outgoing row
\* were attempted in this order and the chat completion returned; each row is
\* present exactly when its commit succeeded, so at most one outgoing row is
\* persisted, and all parts are out exactly when no send raised.  200 is
\* returned by no earlier step.
C3_OkMeansAllStepsAttempted ==
    /\ sms.resp = 200 => SmsAnswered
    /\ (SmsAnswered /\ sms.resp = 200) =>
        /\ Len(sms.trace) = 5
        /\ sms.trace[1] \in {"save_in_ok", "save_in_fail"}
        /\ sms.trace[2] = "enrich"
        /\ sms.trace[3] = "chat"
        /\ sms.trace[4] \in {"send_ok", "send_fail"}
        /\ sms.trace[5] \in {"save_out_ok", "save_out_fail"}
        /\ Len(SelectSeq(AddedRows, IsIncoming)) = IF sms.trace[1] = "save_in_ok" THEN 1 ELSE 0
        /\ Len(SelectSeq(AddedRows, IsOutgoing)) = IF sms.trace[5] = "save_out_ok" THEN 1 ELSE 0
        /\ (sms.trace[4] = "send_ok") <=> (Len(AddedMessages) = NumParts(sms.reply))
        /\ \A i \in 1..Len(AddedRows) :
              IsIncoming(AddedRows[i]) => \A j \in 1..Len(AddedRows) :
                                             IsOutgoing(AddedRows[j]) => i < j

C3_Witness ==
    /\ SmsAnswered /\ sms.resp = 200
    /\ sms.trace = <<"save_in_ok", "enrich", "chat", "send_fail", "save_out_ok">>
    /\ Len(AddedRows) = 2

\* C4: an exception raised after the authorization checks (preference lookup,
\* prompt building, chat completion) is answered with 500, and the incoming
\* History row committed before it is still there.
C4_LateExceptionIs500KeepsIncoming ==
    (SmsAnswered /\ sms.cause \in {"prefs", "prompt", "chat"}) =>
        /\ sms.resp = 500
        /\ sms.trace # <<>>
        /\ sms.trace[1] = "save_in_ok" =>
              /\ Len(history) = sms.hist0 + 1
              /\ history[sms.hist0 + 1] =
                    HistoryRow(sms.user_id, sms.subscription_id,
                               [kind |-> "single", sids |-> <<sms.MessageSid>>],
                               "incoming", [text |-> sms.Body, len |-> 0])
        /\ Len(outbox) = sms.out0

C4_Witness ==
    /\ SmsAnswered /\ sms.cause = "chat" /\ sms.resp = 500
    /\ sms.trace[1] = "save_in_ok"
    /\ Len(history) = sms.hist0 + 1

\* C5: when the search call or the synthesis call fails for some question of
\* an authorized message, the request is still answered with 200 after the
\* prompt was built and the reply model called (the reply model itself not
\* failing).
C5_EnrichmentFailureStillReplies ==
    (SmsAnswered /\ sms.enrich_failed /\ sms.cause # "chat") =>
        /\ sms.resp = 200
        /\ Len(sms.trace) = 5
        /\ sms.trace[3] = "chat"

(* ------------------------------------------------------------------ *)
(* Billing gate of the inbound SMS webhook (SpecGate)                   *)
(* ------------------------------------------------------------------ *)

\* send_reply ran for the request
ReplyAttempted ==
    \E i \in 1..Len(sms.trace) : sms.trace[i] \in {"send_ok", "send_fail"}

\* C11: while the subscription of the destination number has billing_error
\* set, an inbound SMS to that number is answered with 403, no History row is
\* written and no reply is sent; 200 is returned only when the flag was not
\* set throughout the authorization of the request.
C11_BillingErrorRejects403 ==
    /\ (SmsAnswered /\ sms.gated) =>
          /\ sms.resp = 403
          /\ Len(history) = sms.hist0
          /\ ~ReplyAttempted
    /\ (SmsAnswered /\ sms.resp = 200) => ~sms.gated

(* ------------------------------------------------------------------ *)
(* Properties of process_questions_answers (SpecEnrich)                 *)
(* ------------------------------------------------------------------ *)

\* the answers of exactly the questions whose search and synthesis both
\* produced a result, in question order
RECURSIVE AnsweredOnly(_, _, _, _)
AnsweredOnly(questions, i, fetched, answered) ==
    IF i > Len(questions) THEN <<>>
    ELSE (IF fetched[i] = "data" /\ answered[i] = "ans"
          THEN <<AnswerOf(questions[i])>> ELSE <<>>)
         \o AnsweredOnly(questions, i + 1, fetched, answered)

\* C6: the returned list holds one entry for exactly the questions whose
\* search and synthesis both produced a result, in order, with no None
\* entry, whatever happened to the other questions.
C6_OneEntryPerAnsweredQuestion ==
    (pf.fn = "process_questions_answers" /\ pf.applied /\ Strip(pf.text) # "") =>
        /\ ~pf.out.none
        /\ pf.out.list = AnsweredOnly(extract_questions(pf.lines, pf.call_ok), 1,
                                      pf.fetched, pf.answered)

(* ------------------------------------------------------------------ *)
(* Properties of the billing webhook (SpecBilling)                      *)
(* ------------------------------------------------------------------ *)

StripeAnswered == stripe.pc = "done"

PaymentEvent == stripe.type = "invoice.payment_succeeded"

\* an enabled row for the event's subscription is in the table
Present ==
    \E i \in 1..Len(subscriptions) :
        /\ subscriptions[i].stripe_subscription_id = stripe.id
        /\ subscriptions[i].enabled

\* the row of the event's subscription carries the payment
RowUpdated ==
    \E i \in 1..Len(subscriptions) :
        /\ subscriptions[i].stripe_subscription_id = stripe.id
        /\ subscriptions[i].enabled
        /\ ~subscriptions[i].billing_error
        /\ subscriptions[i].status = "Active"
        /\ subscriptions[i].current_period = "P1"
        /\ subscriptions[i].last_payment_amount = 10
        /\ subscriptions[i].last_payment_date = 1

\* C7: no exception of a handler leaves the route; the route answers with a
\* JSON success or error.
C7_HandlerExceptionsAnswered ==
    StripeAnswered => stripe.resp \in {"success", "error"}

\* C8: a row that is missing on the first lookup and committed before the
\* retries run out is updated by the handler, which looks up no more after it.
C8_RacedRowUpdated ==
    (StripeAnswered /\ PaymentEvent /\ stripe.raced) =>
        (RowUpdated /\ stripe.lookups_after_found = 0)

\* C8 as amended: a row that is missing on the first lookup and committed
\* before the retries run out is updated by the handler exactly when a later
\* attempt runs without its Stripe retrieve, its lookup or its commit raising;
\* otherwise the handler returns with the row as it was.  Once an attempt has
\* found the row no further lookup is made.
C8_RacedRowUpdatedByCleanAttempt ==
    /\ (StripeAnswered /\ PaymentEvent /\ stripe.raced) =>
          (RowUpdated <=> stripe.clean_attempt)
    /\ stripe.lookups_after_found = 0

C8_Witness ==
    /\ StripeAnswered /\ PaymentEvent /\ stripe.raced /\ stripe.clean_attempt
    /\ RowUpdated
    /\ stripe.attempts >= 2

\* C9: when no enabled row for the invoice's subscription ever appears the
\* handler makes exactly 5 attempts, sleeps after each, returns normally and
\* has modified no Subscription row.
C9_AbsentRowFiveAttempts ==
    /\ (PaymentEvent /\ ~Present) =>
          /\ stripe.attempts <= 5
          /\ stripe.sleeps = stripe.attempts
          /\ ~stripe.modified
    /\ (StripeAnswered /\ PaymentEvent /\ ~Present) =>
          /\ stripe.attempts = 5
          /\ stripe.resp = "success"

C9_Witness ==
    /\ StripeAnswered /\ PaymentEvent /\ ~Present
    /\ stripe.attempts = 5 /\ stripe.sleeps = 5 /\ stripe.lookups < 5

StatusChange(i) == <<subscriptions[i].status, subscriptions'[i].status>>

BillingIssueEvent == stripe.type = "invoice.payment_failed"

\* the handler found an enabled row for the event's subscription
FoundRecord == stripe.subscription_record # 0

Flagged(rec) ==
    subscriptions[rec].billing_error /\ subscriptions[rec].status = "Billing Issue"

\* the messages the handler has sent
Notes == SubSeq(outbox, stripe.out0 + 1, Len(outbox))

NotifiedEntries ==
    MobileEntries(subscriptions[stripe.subscription_record].user_id,
                  stripe.subscription_record)

\* the parts of the notes that went to the i-th entry, given that the entries
\* before it received sends[j] parts each
RECURSIVE PartsBefore(_, _)
PartsBefore(sends, i) == IF i <= 1 THEN 0 ELSE sends[i - 1] + PartsBefore(sends, i - 1)

CancelsEnabled ==
    /\ stripe.pc = "idle"
    /\ stripe'.type = "customer.subscription.deleted"
    /\ FindEnabled(subscriptions, stripe'.id) # 0

\* C13: handling customer.subscription.deleted for an enabled subscription
\* deletes its number at the telephony provider and leaves the row with
\* enabled=False and status 'Cancelled'; no Subscription row and no History
\* row is removed, and the row does not point at a provisioned number.
C13_CancellationDeletesNumberKeepsRows ==
    [][CancelsEnabled =>
          LET rec == FindEnabled(subscriptions, stripe'.id)
          IN /\ subscriptions[rec].twillio_number_sid \notin twilio_numbers'
             /\ ~subscriptions'[rec].enabled
             /\ subscriptions'[rec].status = "Cancelled"
             /\ Len(subscriptions') = Len(subscriptions)
             /\ history' = history
             /\ subscriptions'[rec].twillio_number_sid \notin twilio_numbers']_vars

(* ------------------------------------------------------------------ *)
(* Properties of send_reply (SpecReply)                                 *)
(* ------------------------------------------------------------------ *)

ReplySent == pf.fn = "send_reply" /\ pf.applied

CleanedLen == clean_string(pf.reply).len

\* no call of messages.create raised
AllSendsOk == pf.n_ok >= NumParts(CleanedLen)

\* the messages are consecutive slices of the text starting at its first
\* character, each of at most 1600 characters
Consecutive(msgs) ==
    /\ \A k \in 1..Len(msgs) :
          /\ msgs[k].part.lo = IF k = 1 THEN 0 ELSE msgs[k - 1].part.hi
          /\ msgs[k].part.hi - msgs[k].part.lo <= 1600
          /\ msgs[k].part.lo <= msgs[k].part.hi
          /\ msgs[k].to = "M1" /\ msgs[k].from = "PN1"
    /\ \A j, k \in 1..Len(msgs) : j < k => msgs[j].sid < msgs[k].sid

\* C14: the messages send_reply sends are, in order, consecutive slices of at
\* most 1600 characters of the cleaned reply; when no send raises they cover
\* the cleaned reply from its first to its last character, a cleaned reply of
\* at most 1600 characters goes out as one message and one of 3500 as 3.
C14_PartsCoverCleanedReply ==
    ReplySent =>
        /\ Consecutive(outbox)
        /\ Len(outbox) = Min(pf.n_ok, NumParts(CleanedLen))
        /\ AllSendsOk =>
              /\ Len(outbox) >= 1
              /\ outbox[Len(outbox)].part.hi = CleanedLen
              /\ CleanedLen <= 1600 => Len(outbox) = 1
              /\ CleanedLen > 1600 =>
                    \A k \in 1..Len(outbox) : outbox[k].part.lo < outbox[k].part.hi
              /\ CleanedLen = 3500 => Len(outbox) = 3

\* a 3502-character reply with two removed characters goes out as 3 messages
C14_Witness ==
    /\ ReplySent /\ AllSendsOk
    /\ pf.reply = Text(3502, 2)
    /\ Len(outbox) = 3
    /\ outbox[3].part = [lo |-> 3200, hi |-> 3500]

OutgoingRows == SelectSeq(history, IsOutgoing)

\* the sids of the messages sent, in send order
SentSids == [k \in 1..Len(outbox) |-> outbox[k].sid]

\* C15: after a send in which every part succeeded there is exactly one
\* outgoing History row, holding the single sid when one part was sent and
\* the sids of all parts in send order when several were sent.
C15_OneRowWithAllSids ==
    (ReplySent /\ AllSendsOk) =>
        /\ Len(OutgoingRows) = 1
        /\ OutgoingRows[1].message_sid.sids = SentSids
        /\ OutgoingRows[1].message_sid.kind =
              IF Len(outbox) = 1 THEN "single" ELSE "str_list"

\* C15 as amended: after a send in which every part succeeded, send_reply
\* called with save_message true writes one outgoing History row when the
\* commit succeeds and none when it fails; the row carries the cleaned reply
\* and, as message id, the single sid when one part was sent and the text of
\* the list of all sids in send order when several were sent.  Called with
\* save_message false it writes no row.
C15_OneRowWhenSavedAndCommitted ==
    (ReplySent /\ AllSendsOk) =>
        /\ Len(history) = Len(OutgoingRows)
        /\ Len(OutgoingRows) = IF pf.save_message /\ pf.commit_ok THEN 1 ELSE 0
        /\ Len(OutgoingRows) = 1 =>
              /\ OutgoingRows[1].message_sid.sids = SentSids
              /\ OutgoingRows[1].message_sid.kind =
                    IF Len(outbox) = 1 THEN "single" ELSE "str_list"
              /\ OutgoingRows[1].body = [text |-> "reply", len |-> CleanedLen]
              /\ OutgoingRows[1].user_id = 1 /\ OutgoingRows[1].subscription_id = 1

C15_Witness ==
    /\ ReplySent /\ AllSendsOk /\ pf.save_message /\ pf.commit_ok
    /\ Len(outbox) = 3
    /\ Len(OutgoingRows) = 1
    /\ OutgoingRows[1].message_sid = [kind |-> "str_list", sids |-> <<101, 102, 103>>]

\* C16: when a send raises, send_reply still returns and, called with
\* save_message true, writes exactly one outgoing History row with the reply
\* body and a null delivery id (stated for a commit that succeeds).
C16_FailedSendRowHasNullId ==
    (ReplySent /\ ~AllSendsOk /\ pf.save_message /\ pf.commit_ok) =>
        /\ Len(OutgoingRows) = 1
        /\ OutgoingRows[1].body = [text |-> "reply", len |-> CleanedLen]
        /\ OutgoingRows[1].message_sid = [kind |-> "none", sids |-> <<>>]

(* ------------------------------------------------------------------ *)
(* Properties of extract_questions (SpecEnrich)                         *)
(* ------------------------------------------------------------------ *)

Enriched == pf.fn = "process_questions_answers" /\ pf.applied /\ Strip(pf.text) # ""

\* the output lines that contain a question mark, in output order, each with
\* its location phrase replaced
QuestionLines ==
    LET marked == SelectSeq(pf.lines, HasQuestionMark)
    IN [i \in 1..Len(marked) |-> Relocate(marked[i])]

\* C17: extract_questions returns one question for exactly the output lines
\* that contain a question mark, in output order; when the model call fails
\* it returns the empty list and the enrichment returns an empty list
\* instead of failing.
C17_OneQuestionPerMarkedLine ==
    Enriched =>
        /\ pf.call_ok => pf.questions = QuestionLines
        /\ ~pf.call_ok => (pf.questions = <<>> /\ pf.out = [none |-> FALSE, list |-> <<>>])

\* the extraction yields no line with a question mark: its call fails or no
\* line of its output holds one
NoMarkedLine == ~pf.call_ok \/ \A i \in 1..Len(pf.lines) : ~HasQuestionMark(pf.lines[i])

\* C18: when the extraction yields no line with a question mark, the
\* enrichment returns the empty list and the prompt built from it has no
\* "Additional Information" section.
C18_NoQuestionsNoAdditionalInfo ==
    (Enriched /\ NoMarkedLine) =>
        /\ pf.out = [none |-> FALSE, list |-> <<>>]
        /\ ~build_system_prompt(pf.out, None).raised
        /\ ~build_system_prompt(pf.out, None).prompt.has_additional
        /\ build_system_prompt(pf.out, None).prompt.additional = <<>>

C18_Witness ==
    /\ Enriched /\ NoMarkedLine /\ pf.call_ok
    /\ pf.lines = <<"n", "n">>
    /\ pf.out = [none |-> FALSE, list |-> <<>>]
    /\ build_system_prompt(pf.out, None).prompt = NoPrompt

(* ------------------------------------------------------------------ *)
(* Properties of build_system_prompt (SpecPrompt)                       *)
(* ------------------------------------------------------------------ *)

PromptBuilt == pf.fn = "build_system_prompt" /\ pf.applied

\* extra_info is given and not empty
ExtraPresent == ~pf.extra_info.none /\ Len(pf.extra_info.list) > 0

MessagePresent == pf.system_message # None /\ pf.system_message # ""

HasEnrichmentSection == pf.out.prompt.has_additional

HasMessageSection == pf.out.prompt.message_type # None

\* C19: the prompt has the enrichment section exactly when extra_info is
\* present and the system_message section exactly when system_message is
\* present and extra_info is absent; never both; with both inputs given only
\* the enrichment section.  (The builder raises instead of returning exactly
\* when a list item is not a string.)
C19_SectionPrecedence ==
    PromptBuilt =>
        /\ pf.out.raised <=>
              (ExtraPresent /\ \E i \in 1..Len(pf.extra_info.list) :
                                  pf.extra_info.list[i] = None)
        /\ ~pf.out.raised =>
              /\ HasEnrichmentSection <=> ExtraPresent
              /\ HasEnrichmentSection => pf.out.prompt.additional = pf.extra_info.list
              /\ HasMessageSection <=> (MessagePresent /\ ~ExtraPresent)
              /\ HasMessageSection => pf.out.prompt.message_type = pf.system_message
              /\ ~(HasEnrichmentSection /\ HasMessageSection)
              /\ (ExtraPresent /\ MessagePresent) =>
                    (HasEnrichmentSection /\ ~HasMessageSection)

\* both inputs are given and only the enrichment section is in the prompt
C19_Witness ==
    /\ PromptBuilt /\ ExtraPresent /\ MessagePresent /\ ~pf.out.raised
    /\ pf.out.prompt = [has_additional |-> TRUE, additional |-> <<"A1">>,
                         message_type |-> None]

(* ------------------------------------------------------------------ *)
(* Properties of the conversation (SpecChat)                            *)
(* ------------------------------------------------------------------ *)

ConversationBuilt == pf.fn = "build_and_send_messages_openai" /\ pf.applied

\* the rows of the subscription, oldest first
StoredRows ==
    LET mine(r) == r.user_id = pf.user_id /\ r.subscription_id = pf.subscription_id
    IN SelectSeq(history, mine)

\* the messages of the conversation that come from the history
HistoryMessages ==
    LET fromHistory(m) == m.role # "system"
    IN SelectSeq(pf.out, fromHistory)

\* C20: the conversation holds at most 6 history messages; they are the 6
\* most recent rows of the subscription (all of them when there are fewer),
\* oldest first, an incoming row with role user and an outgoing row with
\* role assistant.
C20_SixMostRecentChronological ==
    ConversationBuilt =>
        LET n == Len(StoredRows)
            k == IF n < 6 THEN n ELSE 6
        IN /\ Len(HistoryMessages) = k
           /\ Len(pf.out) = k + 1
           /\ \A j \in 1..k :
                 /\ HistoryMessages[j].content = Cleaned(StoredRows[n - k + j].body)
                 /\ HistoryMessages[j].role =
                       IF StoredRows[n - k + j].direction = "incoming"
                       THEN "user" ELSE "assistant"

\* seven rows of the subscription are stored and the oldest is left out
C20_Witness ==
    /\ ConversationBuilt
    /\ Len(StoredRows) = 7
    /\ Len(HistoryMessages) = 6
    /\ HistoryMessages[1].content = Cleaned(StoredRows[2].body)
    /\ HistoryMessages[6].content = Cleaned(StoredRows[7].body)
    /\ \E i, j \in 1..6 : HistoryMessages[i].role = "user" /\ HistoryMessages[j].role = "assistant"

(* ------------------------------------------------------------------ *)
(* Properties of clean_data (SpecClean)                                 *)
(* ------------------------------------------------------------------ *)

DataCleaned == pf.fn = "clean_data" /\ pf.applied

\* how an item is reached from its dict or list: by its key, or by its index
PathStep(data, i) == [key |-> data.items[i].key, index |-> IF data.kind = "list" THEN i ELSE 0]

RECURSIVE NodesAt(_, _), NodesOfItems(_, _, _)
\* the nodes of a JSON value in document order, each with its path
NodesAt(data, path) ==
    <<[path |-> path, kind |-> data.kind, value |-> data.value]>> \o NodesOfItems(data, path, 1)

NodesOfItems(data, path, i) ==
    IF i > Len(data.items) THEN <<>>
    ELSE NodesAt(data.items[i].node, Append(path, PathStep(data, i)))
         \o NodesOfItems(data, path, i + 1)

Nodes(data) == NodesAt(data, <<>>)

\* no key on the path is on the denylist
KeptNode(node) == \A i \in 1..Len(node.path) : node.path[i].key \notin keys_to_remove

KeyTokens(tokens) == SelectSeq(tokens, LAMBDA t : t.tok = "key")

ReachedByKey(node) == node.path # <<>> /\ node.path[Len(node.path)].key # None

\* C21: the text clean_data returns names no denylisted key at any depth;
\* the value it encodes has exactly the nodes of the input that are not
\* under a denylisted key, at the same paths and in the same order (list
\* elements keep their index, the remaining keys of a dict their order), and
\* the keys of the text are the keys of these nodes in document order.
C21_NoDenylistedKeyRestKept ==
    DataCleaned =>
        LET kept == SelectSeq(Nodes(pf.data), KeptNode)
            keyed == SelectSeq(kept, ReachedByKey)
            keys == KeyTokens(pf.out.cleaned_json)
        IN /\ \A i \in 1..Len(keys) : keys[i].text \notin keys_to_remove
           /\ Nodes(pf.out.cleaned_data) = kept
           /\ Len(keys) = Len(keyed)
           /\ \A i \in 1..Len(keys) : keys[i].text = keyed[i].path[Len(keyed[i].path)].key

\* a denylisted key three levels down, inside a list, is removed while the
\* key above it stays
C21_Witness ==
    /\ DataCleaned
    /\ \E i \in 1..Len(Nodes(pf.data)) :
          LET node == Nodes(pf.data)[i]
          IN /\ Len(node.path) = 3
             /\ node.path[1].key = "title"
             /\ node.path[2].index = 1
             /\ node.path[3].key = "url"
    /\ Len(Nodes(pf.out.cleaned_data)) = 3
    /\ KeyTokens(pf.out.cleaned_json) = <<Token("key", "title")>>

(* ------------------------------------------------------------------ *)
(* Properties of format_phone_number (SpecPhone)                        *)
(* ------------------------------------------------------------------ *)

PhoneFormatted == pf.fn = "format_phone_number" /\ pf.applied

IsDigit(c) == c \in {"0", "1", "2", "3", "4", "5", "6", "7", "8", "9"}

\* +1 followed by exactly 10 digits
PlusOneTenDigits(phone_number) ==
    /\ ~phone_number.is_none
    /\ Len(phone_number.chars) = 12
    /\ phone_number.chars[1] = "+"
    /\ phone_number.chars[2] = "1"
    /\ \A i \in 3..12 : IsDigit(phone_number.chars[i])

\* C22: +1 followed by exactly 10 digits is returned as '+1 (XXX) XXX-XXXX';
\* every other input is returned unchanged.
C22_FormatsOnlyPlusOneTenDigits ==
    PhoneFormatted =>
        LET c == pf.phone_number.chars
        IN IF PlusOneTenDigits(pf.phone_number)
           THEN pf.out = Phone(<<"+", "1", " ", "(", c[3], c[4], c[5], ")", " ",
                                 c[6], c[7], c[8], "-", c[9], c[10], c[11], c[12]>>)
           ELSE pf.out = pf.phone_number

(* ------------------------------------------------------------------ *)
(* Properties of load_sms_history (SpecHistory)                         *)
(* ------------------------------------------------------------------ *)

HistoryLoaded == pf.fn = "load_sms_history" /\ pf.applied

\* when a row was created: its place in the table, which is in order of creation
CreatedAt(row) == CHOOSE i \in 1..Len(history) : history[i] = row

Occurrences(seq, x) == Cardinality({i \in 1..Len(seq) : seq[i] = x})

\* C23: order 'desc' returns the rows of the user and subscription newest
\* first and order 'asc' oldest first; both return every such row as often
\* as the other and no other row; any other order raises ValueError and no
\* query is made.
C23_OrderedSameRowsElseValueError ==
    HistoryLoaded =>
        LET asc == pf.out.asc.result
            desc == pf.out.desc.result
        IN /\ pf.out.asc.raised = None /\ pf.out.desc.raised = None
           /\ \A i, j \in 1..Len(asc) : i < j => CreatedAt(asc[i]) < CreatedAt(asc[j])
           /\ \A i, j \in 1..Len(desc) : i < j => CreatedAt(desc[i]) > CreatedAt(desc[j])
           /\ \A k \in 1..Len(history) :
                 /\ Occurrences(asc, history[k]) = Occurrences(desc, history[k])
                 /\ Occurrences(asc, history[k]) =
                       IF history[k].user_id = pf.user_id
                          /\ history[k].subscription_id = pf.subscription_id
                       THEN 1 ELSE 0
           /\ Len(asc) = Len(desc)
           /\ pf.out.other = [raised |-> "ValueError", queried |-> FALSE, result |-> <<>>]

\* three rows of the subscription among rows of another one, loaded both ways
C23_Witness ==
    /\ HistoryLoaded
    /\ Len(pf.out.desc.result) = 3
    /\ Len(history) > 3
    /\ pf.out.desc.result[1] = pf.out.asc.result[3]
    /\ pf.out.desc.result[1] # pf.out.asc.result[1]
    /\ pf.out.other.raised = "ValueError"

(* ------------------------------------------------------------------ *)
(* Verification of the billing webhook (SpecBilling)                    *)
(* ------------------------------------------------------------------ *)

\* none of the three handlers has taken a step for the request
NoHandlerRan ==
    /\ stripe.attempts = 0
    /\ stripe.lookups = 0
    /\ stripe.subscription_record = 0
    /\ ~stripe.modified
    /\ stripe.sends = <<>>

\* C24: a request whose payload or signature fails verification is answered
\* with a JSON error, no handler runs for it and no Subscription row is
\* changed by it; a verified event is answered with a JSON success.
C24_InvalidErrorVerifiedSuccess ==
    StripeAnswered =>
        IF stripe.type = "invalid"
        THEN stripe.resp = "error" /\ NoHandlerRan
        ELSE stripe.resp = "success"

(* ------------------------------------------------------------------ *)
(* The message log (SpecLog)                                            *)
(* ------------------------------------------------------------------ *)

\* the step is a save_sms_history of the SMS worker: the incoming message,
\* or the reply that send_reply records
SavesMessage ==
    \/ sms.pc = "save_in" /\ sms'.pc = "enrich"
    \/ sms.pc = "send" /\ sms'.pc = "done"

\* C25: no step of the SMS webhook, of a reply, of a dashboard post or of a
\* billing webhook (cancellation included) modifies or removes a History
\* row; the History table changes only by one row added at its end, and
\* only in a save_sms_history step, the row being a message of the request
\* in hand.
C25_HistoryAppendOnly ==
    [][ \/ history' = history
        \/ /\ Len(history') = Len(history) + 1
           /\ SubSeq(history', 1, Len(history)) = history
           /\ SavesMessage
           /\ history'[Len(history')].user_id = sms.user_id
           /\ history'[Len(history')].subscription_id = sms.subscription_id
           /\ history'[Len(history')].direction =
                 IF sms.pc = "save_in" THEN "incoming" ELSE "outgoing" ]_vars

\* both messages of a conversation are in the log after the user has changed
\* the mobile number on the dashboard and the subscription was cancelled
C25_Witness ==
    /\ Len(history) = 2
    /\ history[1].direction = "incoming"
    /\ history[2].direction = "outgoing"
    /\ mobile_numbers[1].mobile_number = "M2"
    /\ ~subscriptions[1].enabled
    /\ subscriptions[1].status = "Cancelled"

(* ------------------------------------------------------------------ *)
(* Properties of the subscribe requests (SpecSubscribe)                 *)
(* ------------------------------------------------------------------ *)

EnabledRows(user) ==
    {i \in 1..Len(subscriptions) : subscriptions[i].user_id = user /\ subscriptions[i].enabled}

\* C26: in every reachable state each user has at most one Subscription
\* row with enabled=True.
C26_OneEnabledRowPerUser ==
    \A user \in {1, 2} : Cardinality(EnabledRows(user)) <= 1

\* C29: when handle_stripe_operations returns failure, the call has left no
\* paid Stripe subscription and has added no Subscription row; an unpaid
\* subscription was deleted with no number bought.
C29_FailureLeavesNothingBillable ==
    \A w \in Submits :
        subscribe[w].result = "failure" =>
            /\ ~(subscribe[w].remote /\ subscribe[w].paid)
            /\ subscribe[w].row = 0
            /\ \A i \in 1..Len(subscriptions) :
                  subscriptions[i].stripe_subscription_id # StripeIdOf(w)
            /\ ~subscribe[w].paid => subscribe[w].number = None

(* ------------------------------------------------------------------ *)
(* Position of the system prompt (SpecChat)                             *)
(* ------------------------------------------------------------------ *)

\* C27: with a non-empty history the system prompt is the second last
\* message of the conversation and only the newest history message follows
\* it; with no history the system prompt is the only message.
C27_SystemPromptSecondLast ==
    ConversationBuilt =>
        LET n == Len(StoredRows)
            m == Len(pf.out)
        IN IF n = 0
           THEN pf.out = <<SystemMessage(NoPrompt)>>
           ELSE /\ m >= 2
                /\ pf.out[m - 1] = SystemMessage(NoPrompt)
                /\ pf.out[m] = HistoryMessage(StoredRows[n])

(* ------------------------------------------------------------------ *)
(* After the cancellation (SpecLife)                                    *)
(* ------------------------------------------------------------------ *)

Disabled(i) == ~subscriptions[i].enabled

\* the billing worker takes a step
BillingStep == stripe' # stripe

\* the SMS worker answers a request
SmsAnswers == sms.pc # "done" /\ sms'.pc = "done"

\* C28: a Subscription row with enabled=False is never changed again; while
\* the subscription's row is disabled no step of a billing event (payment
\* succeeded, payment failed, subscription deleted) sends a message or
\* touches the provider's numbers; and an SMS that comes in for the
\* subscription's number after the cancellation is answered with an error
\* status, with no History row saved and no reply sent.
C28_CancellationAbsorbing ==
    [][ /\ \A i \in 1..Len(subscriptions) :
              Disabled(i) => /\ Len(subscriptions') >= i
                             /\ subscriptions'[i] = subscriptions[i]
        /\ (BillingStep /\ Disabled(1)) =>
              /\ outbox' = outbox
              /\ history' = history
              /\ twilio_numbers' = twilio_numbers
              /\ mobile_numbers' = mobile_numbers
        /\ (SmsAnswers /\ sms'.after_cancel) =>
              /\ sms'.resp \in {403, 500}
              /\ Len(history') = sms'.hist0
              /\ Len(outbox') = sms'.out0 ]_vars

\* after the cancellation a payment-failed event found no row and an SMS
\* to the number, which the provider still routes, was turned away
C28_Witness ==
    /\ Disabled(1)
    /\ stripe.pc = "done"
    /\ stripe.type = "invoice.payment_failed"
    /\ stripe.subscription_record = 0
    /\ sms.pc = "done"
    /\ sms.after_cancel
    /\ sms.resp = 403
    /\ "PN1" \in twilio_numbers
    /\ outbox = <<>>

(* ------------------------------------------------------------------ *)
(* The conversation sent for an inbound SMS (SpecSms)                   *)
(* ------------------------------------------------------------------ *)

\* the completion call was made for the request in hand
ChatCalled == sms.conversation # <<>>

\* the inbound message as a message of the conversation
InboundMessage ==
    HistoryMessage(HistoryRow(sms.user_id, sms.subscription_id,
                              [kind |-> "single", sids |-> <<sms.MessageSid>>],
                              "incoming", [text |-> sms.Body, len |-> 0]))

\* C30: whenever the completion call is made for an inbound SMS, the last
\* message of the conversation is that inbound message with role user, also
\* when saving the incoming History row failed.
C30_LastMessageIsInbound ==
    ChatCalled =>
        /\ sms.conversation[Len(sms.conversation)] = InboundMessage
        /\ sms.conversation[Len(sms.conversation)].role = "user"

====
